---------------------------- MODULE Spec2Model ----------------------------
(***************************************************************************)
(* Payload codec and round-trip block protocol of the as-smithy editors    *)
(* (EnvironmentEditor, the structured WaveEditor and the raw WaveEditor).  *)
(*                                                                         *)
(* A JavaScript string is a sequence of code units: every string of the   *)
(* model is a sequence of naturals (ASCII codes, plus 65533 for U+FFFD).   *)
(* A byte buffer (Uint8Array) is a sequence of naturals in 0..255.         *)
(***************************************************************************)
EXTENDS Integers, Sequences, FiniteSets, TLC

(***************************************************************************)
(* String helpers (String.prototype.slice / includes / startsWith).        *)
(***************************************************************************)

\* s.slice(from, to) with 0-based, end-exclusive offsets, clamped as in JS.
Slice(s, from, to) ==
  LET f == IF from < 0 THEN 0 ELSE IF from > Len(s) THEN Len(s) ELSE from
      t == IF to < 0 THEN 0 ELSE IF to > Len(s) THEN Len(s) ELSE to
  IN  IF f >= t THEN << >> ELSE SubSeq(s, f + 1, t)

\* s.slice(from)
SliceFrom(s, from) == Slice(s, from, Len(s))

\* does pat occur in s at 0-based offset i
MatchAt(s, pat, i) ==
  /\ i >= 0
  /\ i + Len(pat) <= Len(s)
  /\ \A k \in 1..Len(pat) : s[i + k] = pat[k]

\* s.includes(pat)
Includes(s, pat) == \E i \in 0..Len(s) : MatchAt(s, pat, i)

\* s.startsWith(pat)
StartsWith(s, pat) == MatchAt(s, pat, 0)

\* s.endsWith(pat)
EndsWith(s, pat) == MatchAt(s, pat, Len(s) - Len(pat))

\* the regular-expression class \s restricted to ASCII: TAB LF VT FF CR SPACE
IsSpace(c) == c \in {9, 10, 11, 12, 13, 32}

\* the mask character '*'
IsStar(c) == c = 42

\* the base64 alphabet of the scanner's class: A-Z a-z 0-9 + / =
IsB64Class(c) ==
  \/ c \in 65..90
  \/ c \in 97..122
  \/ c \in 48..57
  \/ c \in {43, 47, 61}

RECURSIVE Filter(_, _)
\* s.replace(/[...]/g, "") : drop every code unit of s that lies in the set drop
\* (evaluated by halving, the result is that of the left-to-right pass)
Filter(s, drop) ==
  IF Len(s) = 0 THEN << >>
  ELSE IF Len(s) = 1 THEN (IF s[1] \in drop THEN << >> ELSE s)
  ELSE LET h == Len(s) \div 2
       IN  Filter(SubSeq(s, 1, h), drop) \o Filter(SubSeq(s, h + 1, Len(s)), drop)

\* least and greatest element of a non-empty set of integers
SetMin(S) == CHOOSE n \in S : \A k \in S : n <= k
SetMax(S) == CHOOSE n \in S : \A k \in S : k <= n

SpaceCodes == {9, 10, 11, 12, 13, 32}

(***************************************************************************)
(* Byte/Text codec: btoa / atob of the host runtime.                       *)
(***************************************************************************)

\* sextet 0..63 -> code unit of the base64 alphabet
B64Code(v) ==
  IF v < 26 THEN 65 + v
  ELSE IF v < 52 THEN 97 + (v - 26)
  ELSE IF v < 62 THEN 48 + (v - 52)
  ELSE IF v = 62 THEN 43 ELSE 47

\* code unit of the base64 alphabet (without '=') -> sextet
B64Val(c) ==
  IF c \in 65..90 THEN c - 65
  ELSE IF c \in 97..122 THEN c - 97 + 26
  ELSE IF c \in 48..57 THEN c - 48 + 52
  ELSE IF c = 43 THEN 62 ELSE 63

IsB64Data(c) == IsB64Class(c) /\ c # 61

\* the four characters of one group of up to three bytes
B64Group(b) ==
  IF Len(b) = 1 THEN
    <<B64Code(b[1] \div 4), B64Code((b[1] % 4) * 16), 61, 61>>
  ELSE IF Len(b) = 2 THEN
    <<B64Code(b[1] \div 4), B64Code((b[1] % 4) * 16 + b[2] \div 16),
      B64Code((b[2] % 16) * 4), 61>>
  ELSE
    <<B64Code(b[1] \div 4), B64Code((b[1] % 4) * 16 + b[2] \div 16),
      B64Code((b[2] % 16) * 4 + b[3] \div 64), B64Code(b[3] % 64)>>

RECURSIVE btoa(_)
\* btoa(binary): standard base64 with '=' padding, group by group
\* (the buffer is cut at a multiple of three bytes and the halves encoded)
btoa(b) ==
  IF Len(b) = 0 THEN << >>
  ELSE IF Len(b) <= 3 THEN B64Group(b)
  ELSE LET h == 3 * (((Len(b) + 2) \div 3) \div 2)
       IN  btoa(SubSeq(b, 1, h)) \o btoa(SubSeq(b, h + 1, Len(b)))

\* the bytes of one group of up to four data characters
AtobGroup(d) ==
  IF Len(d) < 2 THEN << >>
  ELSE IF Len(d) = 2 THEN
    <<B64Val(d[1]) * 4 + B64Val(d[2]) \div 16>>
  ELSE IF Len(d) = 3 THEN
    <<B64Val(d[1]) * 4 + B64Val(d[2]) \div 16,
      (B64Val(d[2]) % 16) * 16 + B64Val(d[3]) \div 4>>
  ELSE
    <<B64Val(d[1]) * 4 + B64Val(d[2]) \div 16,
      (B64Val(d[2]) % 16) * 16 + B64Val(d[3]) \div 4,
      (B64Val(d[3]) % 4) * 64 + B64Val(d[4])>>

RECURSIVE AtobData(_)
\* the forgiving-base64 decode of a string of data characters (no padding),
\* group by group (the string is cut at a multiple of four characters)
AtobData(d) ==
  IF Len(d) <= 4 THEN AtobGroup(d)
  ELSE LET h == 4 * (((Len(d) + 3) \div 4) \div 2)
       IN  AtobData(SubSeq(d, 1, h)) \o AtobData(SubSeq(d, h + 1, Len(d)))

\* atob strips ASCII whitespace, then up to two trailing '=' when the length
\* is a multiple of four
AtobStripped(s) ==
  LET w == Filter(s, {9, 10, 12, 13, 32})
      n == Len(w)
  IN  IF n > 0 /\ n % 4 = 0 /\ w[n] = 61 THEN
        IF w[n - 1] = 61 THEN SubSeq(w, 1, n - 2) ELSE SubSeq(w, 1, n - 1)
      ELSE w

\* atob(s): [ok |-> FALSE] models the InvalidCharacterError it throws
atob(s) ==
  LET d == AtobStripped(s)
  IN  IF Len(d) % 4 = 1 \/ \E i \in 1..Len(d) : ~IsB64Data(d[i])
      THEN [ok |-> FALSE, bytes |-> << >>]
      ELSE [ok |-> TRUE, bytes |-> AtobData(d)]

\* base64ToBytes(b64): whitespace is removed, then atob; a throw propagates
base64ToBytes(b64) == atob(Filter(b64, SpaceCodes))

\* bytesToBase64(bytes): the chunked String.fromCharCode calls concatenate to
\* the binary string of the whole buffer, which btoa encodes
bytesToBase64(bytes) == btoa(bytes)

(***************************************************************************)
(* TextEncoder / TextDecoder (UTF-8).                                      *)
(***************************************************************************)

\* UTF-8 bytes of one code unit; a lone surrogate is encoded as U+FFFD
Utf8Of(c) ==
  IF c < 128 THEN <<c>>
  ELSE IF c < 2048 THEN <<192 + c \div 64, 128 + (c % 64)>>
  ELSE IF c \in 55296..57343 THEN <<239, 191, 189>>
  ELSE <<224 + c \div 4096, 128 + ((c \div 64) % 64), 128 + (c % 64)>>

RECURSIVE TextEncode(_)
\* new TextEncoder().encode(text): the UTF-8 bytes of each code unit in turn
TextEncode(t) ==
  IF Len(t) = 0 THEN << >>
  ELSE IF Len(t) = 1 THEN Utf8Of(t[1])
  ELSE LET h == Len(t) \div 2
       IN  TextEncode(SubSeq(t, 1, h)) \o TextEncode(SubSeq(t, h + 1, Len(t)))

IsCont(b, i) == i <= Len(b) /\ b[i] \in 128..191

RECURSIVE Utf8Run(_, _)
\* the UTF-8 decoder in its default, non-fatal mode, from 1-based position i:
\* a malformed byte becomes U+FFFD and decoding goes on, nothing is thrown.
\* (Four-byte forms, which yield surrogate pairs, are replaced as well.)
Utf8Run(b, i) ==
  IF i > Len(b) THEN << >>
  ELSE IF b[i] < 128 THEN <<b[i]>> \o Utf8Run(b, i + 1)
  ELSE IF b[i] \in 194..223 /\ IsCont(b, i + 1) THEN
    <<(b[i] - 192) * 64 + (b[i + 1] - 128)>> \o Utf8Run(b, i + 2)
  ELSE IF /\ b[i] \in 224..239 /\ IsCont(b, i + 1) /\ IsCont(b, i + 2)
          /\ (b[i] = 224 => b[i + 1] >= 160)
          /\ (b[i] = 237 => b[i + 1] <= 159) THEN
    <<(b[i] - 224) * 4096 + (b[i + 1] - 128) * 64 + (b[i + 2] - 128)>>
    \o Utf8Run(b, i + 3)
  ELSE <<65533>> \o Utf8Run(b, i + 1)

RECURSIVE Utf8Decode(_)
\* a byte that is not a continuation byte always starts a new character, so
\* a long buffer is cut at such a byte and the two parts decoded separately
Utf8Decode(b) ==
  LET cuts == { i \in (Len(b) \div 2 + 1)..Len(b) : b[i] \notin 128..191 }
  IN  IF Len(b) <= 8 \/ cuts = {} THEN Utf8Run(b, 1)
      ELSE Utf8Decode(SubSeq(b, 1, SetMin(cuts) - 1))
           \o Utf8Decode(SubSeq(b, SetMin(cuts), Len(b)))

\* new TextDecoder().decode(out): never throws; a leading BOM is dropped
TextDecode(b) ==
  IF Len(b) >= 3 /\ b[1] = 239 /\ b[2] = 187 /\ b[3] = 191
  THEN Utf8Decode(SubSeq(b, 4, Len(b))) ELSE Utf8Decode(b)

\* whether b is well-formed UTF-8 (no replacement needed)
ValidUtf8(b) == TextEncode(Utf8Decode(b)) = b

(***************************************************************************)
(* Compression adapter: pako.deflate / inflate / inflateRaw / ungzip.      *)
(* The deflate body is modelled in its stored-block form: it is a valid    *)
(* member of the deflate family that every inflater accepts; Huffman-coded *)
(* blocks are outside the byte buffers of the model and count as errors.   *)
(***************************************************************************)

RECURSIVE WeightedSum(_, _, _, _)
\* sum over i in lo..hi of d[i] * (1 or w - i), modulo 65521
WeightedSum(d, lo, hi, w) ==
  IF lo > hi THEN 0
  ELSE IF lo = hi THEN (d[lo] * (IF w = 0 THEN 1 ELSE w - lo)) % 65521
  ELSE LET h == (lo + hi) \div 2
       IN  (WeightedSum(d, lo, h, w) + WeightedSum(d, h + 1, hi, w)) % 65521

\* the four big-endian bytes of Adler-32(data): a = 1 + the sum of the bytes,
\* b = the sum of the successive values of a, both modulo 65521
Adler32(d) ==
  LET a == (1 + WeightedSum(d, 1, Len(d), 0)) % 65521
      b == (Len(d) + WeightedSum(d, 1, Len(d), Len(d) + 1)) % 65521
  IN  <<b \div 256, b % 256, a \div 256, a % 256>>

\* one final stored block holding data: BFINAL=1 BTYPE=00, LEN, NLEN, data
StoredBlock(d) ==
  <<1, Len(d) % 256, Len(d) \div 256,
    (65535 - Len(d)) % 256, (65535 - Len(d)) \div 256>> \o d

\* pako.deflate(utf8): zlib header 78 9C, deflate body, Adler-32 trailer
pako_deflate(d) == <<120, 156>> \o StoredBlock(d) \o Adler32(d)

RECURSIVE RawInflate(_, _, _)
\* inflate the deflate blocks of b from 1-based position i:
\* [ok, out, next] with next the position after the final block
RawInflate(b, i, acc) ==
  IF i + 4 > Len(b) THEN [ok |-> FALSE, out |-> << >>, next |-> i]
  ELSE
    LET len  == b[i + 1] + 256 * b[i + 2]
        nlen == b[i + 3] + 256 * b[i + 4]
    IN  IF \/ (b[i] \div 2) % 4 # 0
           \/ len + nlen # 65535
           \/ i + 4 + len > Len(b)
        THEN [ok |-> FALSE, out |-> << >>, next |-> i]
        ELSE IF b[i] % 2 = 1
        THEN [ok |-> TRUE, out |-> acc \o SubSeq(b, i + 5, i + 4 + len),
              next |-> i + 5 + len]
        ELSE RawInflate(b, i + 5 + len, acc \o SubSeq(b, i + 5, i + 4 + len))

\* pako.inflateRaw(bytes): a headerless deflate stream
pako_inflateRaw(b) ==
  LET r == RawInflate(b, 1, << >>)
  IN  [ok |-> r.ok, out |-> r.out]

\* a zlib-wrapped stream: CM=8, CINFO<=7, FCHECK, no preset dictionary
InflateZlib(b) ==
  IF \/ Len(b) < 2
     \/ b[1] % 16 # 8
     \/ b[1] \div 16 > 7
     \/ (b[1] * 256 + b[2]) % 31 # 0
     \/ (b[2] \div 32) % 2 = 1
  THEN [ok |-> FALSE, out |-> << >>]
  ELSE
    LET r == RawInflate(b, 3, << >>)
    IN  IF r.ok /\ r.next + 3 <= Len(b)
             /\ SubSeq(b, r.next, r.next + 3) = Adler32(r.out)
        THEN [ok |-> TRUE, out |-> r.out]
        ELSE [ok |-> FALSE, out |-> << >>]

RECURSIVE XorN(_, _)
\* bitwise exclusive or of two naturals
XorN(x, y) ==
  IF x = 0 THEN y
  ELSE IF y = 0 THEN x
  ELSE 2 * XorN(x \div 2, y \div 2) + ((x + y) % 2)

RECURSIVE CrcShift(_, _)
\* n rounds of crc = (crc >>> 1) ^ (EDB88320 if the bit shifted out was 1);
\* the 32-bit register is kept as <<high 16 bits, low 16 bits>>
CrcShift(crc, n) ==
  IF n = 0 THEN crc
  ELSE LET hi == crc[1] \div 2
           lo == (crc[2] \div 2) + ((crc[1] % 2) * 32768)
       IN  IF crc[2] % 2 = 1
           THEN CrcShift(<<XorN(hi, 60856), XorN(lo, 33568)>>, n - 1)
           ELSE CrcShift(<<hi, lo>>, n - 1)

RECURSIVE CrcReg(_, _, _)
\* the CRC register after the bytes of d from 1-based position i
CrcReg(d, i, crc) ==
  IF i > Len(d) \/ crc[1] < 0 THEN crc
  ELSE CrcReg(d, i + 1, CrcShift(<<crc[1], XorN(crc[2], d[i])>>, 8))

\* the four little-endian bytes of CRC-32(data), as gzip stores them
Crc32(d) ==
  LET c == CrcReg(d, 1, <<65535, 65535>>)
      hi == 65535 - c[1]
      lo == 65535 - c[2]
  IN  <<lo % 256, lo \div 256, hi % 256, hi \div 256>>

RECURSIVE SkipZeroTerminated(_, _)
\* position after the next zero byte at or after i (Len+2 when there is none)
SkipZeroTerminated(b, i) ==
  IF i > Len(b) THEN Len(b) + 2
  ELSE IF b[i] = 0 THEN i + 1 ELSE SkipZeroTerminated(b, i + 1)

\* position of the deflate body of a gzip member (after the optional fields)
GzipBodyStart(b) ==
  LET flg == b[4]
      p1 == IF (flg \div 4) % 2 = 1
            THEN (IF Len(b) >= 12 THEN 13 + b[11] + 256 * b[12] ELSE Len(b) + 2)
            ELSE 11
      p2 == IF (flg \div 8) % 2 = 1 THEN SkipZeroTerminated(b, p1) ELSE p1
      p3 == IF (flg \div 16) % 2 = 1 THEN SkipZeroTerminated(b, p2) ELSE p2
  IN  IF (flg \div 2) % 2 = 1 THEN p3 + 2 ELSE p3

\* a gzip-wrapped stream: 1F 8B 08 header, deflate body, CRC-32, ISIZE
InflateGzip(b) ==
  IF Len(b) < 10 \/ b[1] # 31 \/ b[2] # 139 \/ b[3] # 8 \/ b[4] >= 32
  THEN [ok |-> FALSE, out |-> << >>]
  ELSE
    LET r == RawInflate(b, GzipBodyStart(b), << >>)
    IN  IF r.ok /\ r.next + 7 <= Len(b)
             /\ SubSeq(b, r.next, r.next + 3) = Crc32(r.out)
             /\ b[r.next + 4] = Len(r.out) % 256
             /\ b[r.next + 5] = (Len(r.out) \div 256) % 256
             /\ b[r.next + 6] = 0 /\ b[r.next + 7] = 0
        THEN [ok |-> TRUE, out |-> r.out]
        ELSE [ok |-> FALSE, out |-> << >>]

\* pako.inflate(bytes): with default options the wrapper is auto-detected,
\* a zlib header or a gzip header
pako_inflate(b) ==
  IF Len(b) >= 2 /\ b[1] = 31 /\ b[2] = 139 THEN InflateGzip(b)
  ELSE InflateZlib(b)

\* pako.ungzip is the same function as pako.inflate
pako_ungzip(b) == pako_inflate(b)

\* the three attempts of decodeZlibBase64, in the order of the tries array
Tries(b) == <<pako_inflate(b), pako_inflateRaw(b), pako_ungzip(b)>>

\* decodeZlibBase64(input): {ok: true, text} of the first attempt that does
\* not throw (TextDecoder never throws), else {ok: false}
decodeZlibBase64(input) ==
  LET bytes == base64ToBytes(input)
  IN  IF ~bytes.ok THEN [ok |-> FALSE, text |-> << >>]
      ELSE
        LET t == Tries(bytes.bytes)
        IN  IF \E k \in 1..Len(t) : t[k].ok
            THEN LET first == CHOOSE k \in 1..Len(t) :
                                t[k].ok /\ \A j \in 1..(k - 1) : ~t[j].ok
                 IN  [ok |-> TRUE, text |-> TextDecode(t[first].out)]
            ELSE [ok |-> FALSE, text |-> << >>]

\* encodeZlibBase64(text): the deflated bytes of the UTF-8 encoding
encodeZlibBase64(text) == pako_deflate(TextEncode(text))

(***************************************************************************)
(* Obfuscation mask.                                                       *)
(***************************************************************************)

\* number of characters of s that are neither '*' nor whitespace
\* the count with whitespace taken for a payload character
CleanCount_withSpace(s) == Cardinality({ i \in 1..Len(s) : ~IsStar(s[i]) })

CleanCount(s) == Cardinality({ i \in 1..Len(s) : ~IsStar(s[i]) /\ ~IsSpace(s[i]) })

RECURSIVE StarWalk(_, _)
\* the loop of collectStarIndices over s entered with cleanPos: each '*'
\* pushes cleanPos, whitespace is ignored, any other character increments it
StarWalk(s, cleanPos) ==
  IF Len(s) = 0 THEN << >>
  ELSE IF Len(s) = 1 THEN (IF IsStar(s[1]) THEN <<cleanPos>> ELSE << >>)
  ELSE LET h == Len(s) \div 2
       IN  StarWalk(SubSeq(s, 1, h), cleanPos)
           \o StarWalk(SubSeq(s, h + 1, Len(s)), cleanPos + CleanCount(SubSeq(s, 1, h)))

\* collectStarIndices(s)
collectStarIndices(s) == StarWalk(s, 0)

RECURSIVE KeepAtMost(_, _)
\* starPositions.filter((n) => n <= limit)
KeepAtMost(ps, limit) ==
  IF ps = << >> THEN << >>
  ELSE IF Head(ps) <= limit THEN <<Head(ps)>> \o KeepAtMost(Tail(ps), limit)
       ELSE KeepAtMost(Tail(ps), limit)

RECURSIVE InsertDesc(_, _)
\* insert n into the descending list ps
InsertDesc(ps, n) ==
  IF ps = << >> THEN <<n>>
  ELSE IF n >= Head(ps) THEN <<n>> \o ps
       ELSE <<Head(ps)>> \o InsertDesc(Tail(ps), n)

RECURSIVE SortDesc(_)
\* [...ps].sort((a, b) => b - a)
SortDesc(ps) ==
  IF ps = << >> THEN << >> ELSE InsertDesc(SortDesc(Tail(ps)), Head(ps))

\* arr.splice(pos, 1, "*"): the character at pos is deleted
SpliceStar_replace(arr, pos) ==
  LET at == IF pos > Len(arr) THEN Len(arr) ELSE pos
  IN  SubSeq(arr, 1, at) \o <<42>> \o SubSeq(arr, at + 2, Len(arr))

\* arr.splice(pos, 0, "*") for pos >= 0: a start past the end is the end
SpliceStar(arr, pos) ==
  LET at == IF pos > Len(arr) THEN Len(arr) ELSE pos
  IN  SubSeq(arr, 1, at) \o <<42>> \o SubSeq(arr, at + 1, Len(arr))

RECURSIVE SpliceAll(_, _)
SpliceAll(arr, sorted) ==
  IF sorted = << >> THEN arr
  ELSE SpliceAll(SpliceStar(arr, Head(sorted)), Tail(sorted))

\* reinsertStars without .filter((n) => n <= b64.length)
reinsertStars_noFilter(b64, starPositions) ==
  IF Len(starPositions) = 0 THEN b64
  ELSE SpliceAll(b64, SortDesc(starPositions))

\* reinsertStars(b64, starPositions)
reinsertStars(b64, starPositions) ==
  IF Len(starPositions) = 0 THEN b64
  ELSE SpliceAll(b64, SortDesc(KeepAtMost(starPositions, Len(b64))))

(***************************************************************************)
(* Block scanner.                                                          *)
(***************************************************************************)

\* the quantifier {64,} of the scanner's regular expression
MinRun == 64

\* the class [A-Za-z0-9+/=\s\*] of the scanner's regular expression
InScanClass(c) == IsB64Class(c) \/ IsSpace(c) \/ IsStar(c)

\* (["']) : the two quote delimiters
IsQuote(c) == c \in {34, 39}

\* number of consecutive class characters of content from 0-based offset p
ClassRun(content, p) ==
  LET stops == { j \in p..(Len(content) - 1) : ~InScanClass(content[j + 1]) }
  IN  IF stops = {} THEN Len(content) - p ELSE SetMin(stops) - p

\* the expression with (["'])  in place of the back reference \1
MatchLens_anyQuote(content, p) ==
  IF p >= Len(content) \/ ~IsQuote(content[p + 1]) THEN {}
  ELSE { n \in MinRun..ClassRun(content, p + 1) :
           /\ p + n + 2 <= Len(content)
           /\ IsQuote(content[p + n + 2]) }

\* the lengths n of group 2 with which the expression matches at 0-based
\* offset p: a quote, n >= 64 class characters, the same quote (\1)
MatchLens(content, p) ==
  IF p >= Len(content) \/ ~IsQuote(content[p + 1]) THEN {}
  ELSE { n \in MinRun..ClassRun(content, p + 1) :
           /\ p + n + 2 <= Len(content)
           /\ content[p + n + 2] = content[p + 1] }

\* ENV_HINTS and WAVY_HINTS
ENV_HINTS == << <<118, 97, 114, 32>>,
               <<99, 111, 110, 115, 116, 32>>,
               <<108, 101, 116, 32>>,
               <<116, 104, 105, 115, 46>>,
               <<69, 110, 118, 105, 114, 111, 110, 109, 101, 110, 116>>,
               <<67, 111, 110, 102, 105, 103>>,
               <<83, 101, 116, 116, 105, 110, 103>> >>
WAVY_HINTS == << <<65, 100, 100, 66, 108, 111, 111, 110>>,
                <<70, 111, 108, 108, 111, 119, 66, 101, 122, 105, 101, 114>>,
                <<67, 114, 101, 97, 116, 101, 84, 114, 97, 105, 110>>,
                <<87, 97, 118, 101>>,
                <<66, 108, 111, 111, 110>>,
                <<65, 100, 100, 87, 97, 118, 101>> >>

\* the three editor components
Editors == {"env", "waves", "raw"}

\* the keyword hints of an editor
HintsOf(ed) == IF ed = "env" THEN ENV_HINTS ELSE WAVY_HINTS

\* a JavaScript string is truthy iff it is defined and not empty
Truthy(defined, text) == defined /\ text # << >>

\* the BlockMatch with index: ++idx
BlockAt_preIncrement(ed, content, p, n, idx) ==
  LET inner   == SubSeq(content, p + 2, p + 1 + n)
      cleaned == Filter(inner, SpaceCodes \cup {42})
      res     == decodeZlibBase64(cleaned)
  IN  [ index       |-> idx + 1,
        quote       |-> content[p + 1],
        innerStart  |-> p + 1,
        innerEnd    |-> p + 1 + n,
        original    |-> inner,
        cleanedB64  |-> cleaned,
        starsAt     |-> collectStarIndices(inner),
        decoded     |-> res.ok,
        decodedText |-> IF res.ok THEN res.text ELSE << >>,
        likely      |-> /\ Truthy(res.ok, res.text)
                        /\ \E h \in 1..Len(HintsOf(ed)) :
                             Includes(res.text, HintsOf(ed)[h]) ]

\* the BlockMatch pushed for a match of inner length n at 0-based offset p
BlockAt(ed, content, p, n, idx) ==
  LET inner   == SubSeq(content, p + 2, p + 1 + n)
      cleaned == Filter(inner, SpaceCodes \cup {42})
      res     == decodeZlibBase64(cleaned)
  IN  [ index       |-> idx,
        quote       |-> content[p + 1],
        innerStart  |-> p + 1,
        innerEnd    |-> p + 1 + n,
        original    |-> inner,
        cleanedB64  |-> cleaned,
        starsAt     |-> collectStarIndices(inner),
        decoded     |-> res.ok,
        decodedText |-> IF res.ok THEN res.text ELSE << >>,
        likely      |-> /\ Truthy(res.ok, res.text)
                        /\ \E h \in 1..Len(HintsOf(ed)) :
                             Includes(res.text, HintsOf(ed)[h]) ]

RECURSIVE ExecLoop(_, _, _, _)
\* the while ((m = rx.exec(content)) !== null) loop with rx.lastIndex = p:
\* exec tries each offset from lastIndex on (only an offset that holds a
\* quote can match) and the next exec resumes after the match
ExecLoop(ed, content, p, matches) ==
  LET quotes == { j \in p..(Len(content) - 1) : IsQuote(content[j + 1]) }
  IN  IF quotes = {} THEN matches
      ELSE LET q == SetMin(quotes)
               lens == MatchLens(content, q)
           IN  IF lens = {} THEN ExecLoop(ed, content, q + 1, matches)
               ELSE ExecLoop(ed, content, q + SetMax(lens) + 2,
                      Append(matches, BlockAt(ed, content, q, SetMax(lens), Len(matches))))

\* a scan that stops at the first block whose decoding failed
parseBlocks_abortOnFailure(ed, content) ==
  LET all == ExecLoop(ed, content, 0, << >>)
      failed == { k \in 1..Len(all) : ~all[k].decoded }
  IN  IF failed = {} THEN all ELSE SubSeq(all, 1, SetMin(failed) - 1)

\* parseBlocks(content)
parseBlocks(ed, content) == ExecLoop(ed, content, 0, << >>)

(***************************************************************************)
(* Line helpers: split(/\r?\n/), trim, case folding, number formatting.    *)
(***************************************************************************)

RECURSIVE SplitFrom(_, _)
\* text.split(/\r?\n/) of the text from 1-based position i: the line runs to
\* the next separator, LF or CR LF
SplitFrom(t, i) ==
  LET nls == { k \in i..Len(t) : t[k] = 10 }
  IN  IF nls = {} THEN <<SubSeq(t, i, Len(t))>>
      ELSE LET n == SetMin(nls)
               e == IF n > i /\ t[n - 1] = 13 THEN n - 2 ELSE n - 1
           IN  <<SubSeq(t, i, e)>> \o SplitFrom(t, n + 1)

SplitLines(t) == SplitFrom(t, 1)

RECURSIVE JoinLines(_)
\* lines.join("\n")
JoinLines(ls) ==
  IF ls = << >> THEN << >>
  ELSE IF Len(ls) = 1 THEN ls[1]
  ELSE ls[1] \o <<10>> \o JoinLines(Tail(ls))

RECURSIVE TrimStart(_)
TrimStart(s) ==
  IF s # << >> /\ IsSpace(Head(s)) THEN TrimStart(Tail(s)) ELSE s

RECURSIVE TrimEnd(_)
TrimEnd(s) ==
  IF s # << >> /\ IsSpace(s[Len(s)]) THEN TrimEnd(SubSeq(s, 1, Len(s) - 1)) ELSE s

\* s.trim()
Trim(s) == TrimEnd(TrimStart(s))

\* case folding of the /i flag
Lower(c) == IF c \in 65..90 THEN c + 32 ELSE c
LowerStr(s) == [k \in 1..Len(s) |-> Lower(s[k])]

IsDigit(c) == c \in 48..57

\* \w
IsWord(c) == c \in 65..90 \/ c \in 97..122 \/ c \in 48..57 \/ c = 95

RECURSIVE NumStr(_)
\* `${n}` for a natural n
NumStr(n) == IF n < 10 THEN <<48 + n>> ELSE NumStr(n \div 10) \o <<48 + (n % 10)>>

RECURSIVE SkipSpaces(_, _)
\* 0-based offset of the first non-whitespace character at or after p
SkipSpaces(s, p) ==
  IF p < Len(s) /\ IsSpace(s[p + 1]) THEN SkipSpaces(s, p + 1) ELSE p

(***************************************************************************)
(* Domain parser: waves and events.                                        *)
(***************************************************************************)

STR_AddWave      == <<65, 100, 100, 87, 97, 118, 101>>
STR_CreateTrain  == <<67, 114, 101, 97, 116, 101, 84, 114, 97, 105, 110>>
STR_AddBloon     == <<65, 100, 100, 66, 108, 111, 111, 110>>
STR_FollowBezier == <<70, 111, 108, 108, 111, 119, 66, 101, 122, 105, 101, 114>>
STR_Unknown      == <<85, 110, 107, 110, 111, 119, 110>>
STR_WavePrefix   == <<87, 97, 118, 101, 32>>
STR_wave         == <<119, 97, 118, 101>>

RECURSIVE FilterNonBlank(_)
\* lines.filter(line => line.trim())
FilterNonBlank(ls) ==
  IF ls = << >> THEN << >>
  ELSE IF Trim(Head(ls)) # << >> THEN <<Head(ls)>> \o FilterNonBlank(Tail(ls))
       ELSE FilterNonBlank(Tail(ls))

\* /^Wave\s*\d+/i.test(s)
IsWaveHeader(s) ==
  /\ StartsWith(LowerStr(s), STR_wave)
  /\ LET q == SkipSpaces(s, 4) IN q < Len(s) /\ IsDigit(s[q + 1])

\* isWaveStart for the line at 0-based position index of the non-blank lines
isWaveStart(line, index) ==
  \/ Includes(line, STR_AddWave)
  \/ Includes(line, STR_CreateTrain)
  \/ IsWaveHeader(Trim(line))
  \/ (Includes(line, <<40>>) /\ Includes(line, <<41>>) /\ index = 0)

\* an event type that looks for FollowBezier before AddBloon
eventType_bezierFirst(line) ==
  IF Includes(line, STR_FollowBezier) THEN STR_FollowBezier
  ELSE IF Includes(line, STR_AddBloon) THEN STR_AddBloon
  ELSE IF Includes(line, STR_CreateTrain) THEN STR_CreateTrain
  ELSE STR_Unknown

\* the event type of a line
eventType(line) ==
  IF Includes(line, STR_AddBloon) THEN STR_AddBloon
  ELSE IF Includes(line, STR_FollowBezier) THEN STR_FollowBezier
  ELSE IF Includes(line, STR_CreateTrain) THEN STR_CreateTrain
  ELSE STR_Unknown

\* orphan events numbered from 1
OrphanEvents_fromOne(orphans) ==
  [k \in 1..Len(orphans) |->
     [index |-> k, type |-> eventType(orphans[k]), content |-> orphans[k]]]

\* orphanedLines.map((orphanLine, orphanIndex) => ({...}))
OrphanEvents(orphans) ==
  [k \in 1..Len(orphans) |->
     [index |-> k - 1, type |-> eventType(orphans[k]), content |-> orphans[k]]]

\* a synthetic wave whose header is the first orphaned line
OrphanWave_firstLine(waves, orphans) ==
  [index |-> Len(waves), content |-> orphans[1],
   events |-> OrphanEvents(Tail(orphans))]

\* the synthetic wave made of the orphaned lines
OrphanWave(waves, orphans) ==
  [index |-> Len(waves), content |-> STR_WavePrefix \o NumStr(Len(waves) + 1),
   events |-> OrphanEvents(orphans)]

RECURSIVE WaveLoop(_, _, _, _, _, _)
\* lines.forEach of parseWaves from 1-based position i; hasCur says whether
\* currentWave is non-null. The result is <<waves, hasCur, cur, orphans>>.
WaveLoop(lines, i, waves, hasCur, cur, orphans) ==
  IF i > Len(lines) THEN <<waves, hasCur, cur, orphans>>
  ELSE
    LET line == lines[i] IN
    IF isWaveStart(line, i - 1) THEN
      LET flush == Len(orphans) > 0 /\ ~hasCur
          w1 == IF flush THEN Append(waves, OrphanWave(waves, orphans)) ELSE waves
          o1 == IF flush THEN << >> ELSE orphans
          w2 == IF hasCur THEN Append(w1, cur) ELSE w1
      IN  WaveLoop(lines, i + 1, w2, TRUE,
                   [index |-> Len(w2), content |-> line, events |-> << >>], o1)
    ELSE IF hasCur THEN
      WaveLoop(lines, i + 1, waves, TRUE,
               [cur EXCEPT !.events =
                  Append(@, [index |-> Len(cur.events), type |-> eventType(line),
                             content |-> line])],
               orphans)
    ELSE WaveLoop(lines, i + 1, waves, FALSE, cur, Append(orphans, line))

NoWave == [index |-> 0, content |-> << >>, events |-> << >>]

\* parseWaves without the push of the final wave
parseWaves_noFinalPush(decodedText) ==
  LET lines == FilterNonBlank(SplitLines(decodedText))
      r == WaveLoop(lines, 1, << >>, FALSE, NoWave, << >>)
  IN  IF Len(r[4]) > 0 /\ Len(r[1]) = 0 /\ ~r[2]
      THEN Append(r[1], [index |-> 0, content |-> STR_WavePrefix \o <<49>>,
                         events |-> OrphanEvents(r[4])])
      ELSE r[1]

\* parseWaves(decodedText)
parseWaves(decodedText) ==
  LET lines == FilterNonBlank(SplitLines(decodedText))
      r == WaveLoop(lines, 1, << >>, FALSE, NoWave, << >>)
      waves == r[1]
      hasCur == r[2]
      orphans == r[4]
      w1 == IF Len(orphans) > 0 /\ Len(waves) = 0 /\ ~hasCur
            THEN Append(waves, [index |-> 0, content |-> STR_WavePrefix \o <<49>>,
                                events |-> OrphanEvents(orphans)])
            ELSE waves
  IN  IF hasCur THEN Append(w1, r[3]) ELSE w1

\* [wave.content, ...wave.events.map(event => event.content)].join('\n')
WaveText(wave) ==
  JoinLines(<<wave.content>> \o [j \in 1..Len(wave.events) |-> wave.events[j].content])

\* waves.map(wave => ...).join('\n') : the text exported by the wave editor
serializeWaves(waves) == JoinLines([k \in 1..Len(waves) |-> WaveText(waves[k])])

(***************************************************************************)
(* Domain parser: declarations.                                            *)
(***************************************************************************)

STR_var   == <<118, 97, 114>>
STR_const == <<99, 111, 110, 115, 116>>
STR_let   == <<108, 101, 116>>
STR_this  == <<116, 104, 105, 115, 46>>
STR_true  == <<116, 114, 117, 101>>
STR_false == <<102, 97, 108, 115, 101>>

\* '.' of a regular expression: any character but a line terminator
IsDot(c) == c \notin {10, 13, 8232, 8233}

RECURSIVE WordEnd(_, _)
\* 0-based offset after the run of \w characters that starts at p
WordEnd(s, p) == IF p < Len(s) /\ IsWord(s[p + 1]) THEN WordEnd(s, p + 1) ELSE p

\* 0-based offset after the run of '.' characters that starts at p
DotEnd(s, p) ==
  LET stops == { j \in p..(Len(s) - 1) : ~IsDot(s[j + 1]) }
  IN  IF stops = {} THEN Len(s) ELSE SetMin(stops)

\* the common tail (\w+)\s*[:=]\s*(.+);? tried at 0-based offset p.
\* \w+ and the first \s* cannot give characters back (what follows them is
\* neither a word character nor whitespace); the second \s* gives whitespace
\* back to (.+) only when nothing else is left for it; (.+) is greedy and
\* runs to the end of the line, so the optional ';' stays inside the capture.
TailMatch(s, p) ==
  LET we == WordEnd(s, p)
      q  == SkipSpaces(s, we)
      r  == SkipSpaces(s, q + 1)
      starts == { j \in (q + 1)..r : j < Len(s) /\ IsDot(s[j + 1]) }
  IN  IF we > p /\ q < Len(s) /\ s[q + 1] \in {58, 61} /\ starts # {}
      THEN [ok |-> TRUE, name |-> Slice(s, p, we),
            value |-> Slice(s, SetMax(starts), DotEnd(s, SetMax(starts)))]
      ELSE [ok |-> FALSE, name |-> << >>, value |-> << >>]

\* /(?:var|const|let)\s+(\w+)\s*[:=]\s*(.+);?/ tried at 0-based offset p
KeywordMatchAt(s, p) ==
  LET k == IF MatchAt(s, STR_var, p) THEN 3
           ELSE IF MatchAt(s, STR_const, p) THEN 5
           ELSE IF MatchAt(s, STR_let, p) THEN 3 ELSE 0
      sp == SkipSpaces(s, p + k)
  IN  IF k > 0 /\ sp > p + k THEN TailMatch(s, sp)
      ELSE [ok |-> FALSE, name |-> << >>, value |-> << >>]

\* /this\.(\w+)\s*[:=]\s*(.+);?/ tried at 0-based offset p
ThisMatchAt(s, p) ==
  IF MatchAt(s, STR_this, p) THEN TailMatch(s, p + 5)
  ELSE [ok |-> FALSE, name |-> << >>, value |-> << >>]

\* pattern k of the patterns array tried at 0-based offset p
PatternAt(k, s, p) ==
  IF k = 1 THEN KeywordMatchAt(s, p)
  ELSE IF k = 2 THEN ThisMatchAt(s, p)
  ELSE TailMatch(s, p)

\* trimmedLine.match(pattern k): the leftmost offset at which it matches
PatternMatch(k, s) ==
  LET hits == { p \in 0..Len(s) : PatternAt(k, s, p).ok }
  IN  IF hits = {} THEN [ok |-> FALSE, name |-> << >>, value |-> << >>]
      ELSE PatternAt(k, s, CHOOSE p \in hits : \A h \in hits : p <= h)

\* /^-?\d+(\.\d+)?$/.test(v)
IsNumberLiteral(v) ==
  LET d == IF v # << >> /\ v[1] = 45 THEN Tail(v) ELSE v
      dots == { k \in 1..Len(d) : d[k] = 46 }
  IN  /\ d # << >>
      /\ \A k \in 1..Len(d) : IsDigit(d[k]) \/ d[k] = 46
      /\ Cardinality(dots) <= 1
      /\ \A k \in dots : k > 1 /\ k < Len(d)

\* the type inferred from the cleaned value
typeOf(v) ==
  IF LowerStr(v) = STR_true \/ LowerStr(v) = STR_false THEN "boolean"
  ELSE IF IsNumberLiteral(v) THEN "number"
  ELSE IF StartsWith(v, <<91>>) /\ EndsWith(v, <<93>>) THEN "array"
  ELSE IF StartsWith(v, <<123>>) /\ EndsWith(v, <<125>>) THEN "object"
  ELSE "string"

\* the alternatives of the six category expressions, in source order
CategoryRules ==
  << [category |-> "Performance", words |-> {<<115, 112, 101, 101, 100>>, <<118, 101, 108, 111, 99, 105, 116, 121>>, <<114, 97, 116, 101>>, <<116, 105, 109, 101>>, <<100, 101, 108, 97, 121>>}],
     [category |-> "Visual", words |-> {<<99, 111, 108, 111, 114>>, <<114, 103, 98>>, <<104, 101, 120>>, <<97, 108, 112, 104, 97>>}],
     [category |-> "Audio", words |-> {<<115, 111, 117, 110, 100>>, <<97, 117, 100, 105, 111>>, <<118, 111, 108, 117, 109, 101>>, <<109, 117, 115, 105, 99>>}],
     [category |-> "Layout", words |-> {<<119, 105, 100, 116, 104>>, <<104, 101, 105, 103, 104, 116>>, <<115, 105, 122, 101>>, <<115, 99, 97, 108, 101>>, <<112, 111, 115, 105, 116, 105, 111, 110>>, <<120>>, <<121>>, <<122>>}],
     [category |-> "Game", words |-> {<<104, 101, 97, 108, 116, 104>>, <<100, 97, 109, 97, 103, 101>>, <<115, 99, 111, 114, 101>>, <<112, 111, 105, 110, 116, 115>>, <<108, 105, 118, 101, 115>>}],
     [category |-> "Debug", words |-> {<<100, 101, 98, 117, 103>>, <<116, 101, 115, 116>>, <<100, 101, 118>>, <<108, 111, 103>>}] >>

\* whether rule k matches the name (case-insensitive substring search)
RuleHits(k, name) == \E w \in CategoryRules[k].words : Includes(LowerStr(name), w)

\* the category inferred from the name: the first rule that matches
categoryOf(name) ==
  LET hits == { k \in 1..Len(CategoryRules) : RuleHits(k, name) }
  IN  IF hits = {} THEN "General"
      ELSE CategoryRules[CHOOSE k \in hits : \A h \in hits : k <= h].category

\* the records pushed for one line: none, or one for the first pattern that matches
LineVars(line) ==
  LET t == Trim(line)
      hits == { k \in 1..3 : PatternMatch(k, t).ok }
  IN  IF t = << >> \/ StartsWith(t, <<47, 47>>) \/ StartsWith(t, <<47, 42>>) \/ hits = {}
      THEN << >>
      ELSE LET m == PatternMatch(CHOOSE k \in hits : \A h \in hits : k <= h, t)
               cleanValue == Trim(Filter(m.value, {59, 44}))
           IN  << [name |-> m.name, value |-> cleanValue, type |-> typeOf(cleanValue),
                   category |-> categoryOf(m.name), rawLine |-> t] >>

RECURSIVE VarsOfLines(_)
VarsOfLines(ls) ==
  IF ls = << >> THEN << >> ELSE LineVars(Head(ls)) \o VarsOfLines(Tail(ls))

\* parseEnvironmentVariables(decodedText)
parseEnvironmentVariables(decodedText) == VarsOfLines(SplitLines(decodedText))

\* the line exported for one variable, after the style of its rawLine
VarLine(v) ==
  LET tail == v.name \o <<32, 61, 32>> \o v.value \o <<59>>
  IN  IF Includes(v.rawLine, STR_var \o <<32>>) THEN STR_var \o <<32>> \o tail
      ELSE IF Includes(v.rawLine, STR_const \o <<32>>) THEN STR_const \o <<32>> \o tail
      ELSE IF Includes(v.rawLine, STR_this) THEN STR_this \o tail
      ELSE tail

\* environmentVars.map(...).join('\n') : the text exported by the environment editor
serializeVars(vars) == JoinLines([k \in 1..Len(vars) |-> VarLine(vars[k])])

(***************************************************************************)
(* The files of the model: decoded payload texts and the host texts that   *)
(* embed them. A payload is the base64 text of the deflated UTF-8 bytes of *)
(* a text in one of the three framings; "masked" has a '*' after 4         *)
(* characters, two after 10 characters and one at the end; "wrapped" has a *)
(* line feed after 8 characters.                                           *)
(***************************************************************************)

\* "var speed = 10;\nthis.color = [1,2];"
T_ENV ==
  << 118, 97, 114, 32, 115, 112, 101, 101, 100, 32, 61, 32, 49, 48, 59,
     10, 116, 104, 105, 115, 46, 99, 111, 108, 111, 114, 32, 61, 32, 91,
     49, 44, 50, 93, 59 >>

\* "CreateTrain(10)\nAddBloon(Red)\nAddWave(20)"
T_WAVE ==
  << 67, 114, 101, 97, 116, 101, 84, 114, 97, 105, 110, 40, 49, 48, 41,
     10, 65, 100, 100, 66, 108, 111, 111, 110, 40, 82, 101, 100, 41, 10,
     65, 100, 100, 87, 97, 118, 101, 40, 50, 48, 41 >>

\* the empty file
H_EMPTY == << >>

\* x="abc"; : a short string literal, no payload
H_NONE ==
  << 120, 61, 34, 97, 98, 99, 34, 59 >>

\* a="<T_ENV, zlib, masked>";
H_ENV ==
  << 97, 61, 34, 101, 74, 119, 66, 42, 73, 119, 68, 99, 47, 51, 42, 42,
     90, 104, 99, 105, 66, 122, 99, 71, 86, 108, 90, 67, 65, 57, 73, 68,
     69, 119, 79, 119, 112, 48, 97, 71, 108, 122, 76, 109, 78, 118, 98,
     71, 57, 121, 73, 68, 48, 103, 87, 122, 69, 115, 77, 108, 48, 55,
     121, 97, 69, 75, 111, 103, 61, 61, 42, 34, 59 >>

\* c="<64 times A>"; : a run that is no payload
H_JUNK ==
  << 99, 61, 34, 65, 65, 65, 65, 65, 65, 65, 65, 65, 65, 65, 65, 65, 65,
     65, 65, 65, 65, 65, 65, 65, 65, 65, 65, 65, 65, 65, 65, 65, 65, 65,
     65, 65, 65, 65, 65, 65, 65, 65, 65, 65, 65, 65, 65, 65, 65, 65, 65,
     65, 65, 65, 65, 65, 65, 65, 65, 65, 65, 65, 65, 65, 65, 65, 65, 34,
     59 >>

\* c="<64 times A>";b='<T_WAVE, raw deflate>';
H_JUNK_WAVE ==
  << 99, 61, 34, 65, 65, 65, 65, 65, 65, 65, 65, 65, 65, 65, 65, 65, 65,
     65, 65, 65, 65, 65, 65, 65, 65, 65, 65, 65, 65, 65, 65, 65, 65, 65,
     65, 65, 65, 65, 65, 65, 65, 65, 65, 65, 65, 65, 65, 65, 65, 65, 65,
     65, 65, 65, 65, 65, 65, 65, 65, 65, 65, 65, 65, 65, 65, 65, 65, 34,
     59, 98, 61, 39, 65, 83, 107, 65, 49, 118, 57, 68, 99, 109, 86, 104,
     100, 71, 86, 85, 99, 109, 70, 112, 98, 105, 103, 120, 77, 67, 107,
     75, 81, 87, 82, 107, 81, 109, 120, 118, 98, 50, 52, 111, 85, 109,
     86, 107, 75, 81, 112, 66, 90, 71, 82, 88, 89, 88, 90, 108, 75, 68,
     73, 119, 75, 81, 61, 61, 39, 59 >>

\* "<T_WAVE, zlib>",'<T_ENV, zlib, masked>'
H_WAVE_ENV ==
  << 34, 101, 74, 119, 66, 75, 81, 68, 87, 47, 48, 78, 121, 90, 87, 70,
     48, 90, 86, 82, 121, 89, 87, 108, 117, 75, 68, 69, 119, 75, 81,
     112, 66, 90, 71, 82, 67, 98, 71, 57, 118, 98, 105, 104, 83, 90, 87,
     81, 112, 67, 107, 70, 107, 90, 70, 100, 104, 100, 109, 85, 111, 77,
     106, 65, 112, 71, 53, 99, 77, 49, 119, 61, 61, 34, 44, 39, 101, 74,
     119, 66, 42, 73, 119, 68, 99, 47, 51, 42, 42, 90, 104, 99, 105, 66,
     122, 99, 71, 86, 108, 90, 67, 65, 57, 73, 68, 69, 119, 79, 119,
     112, 48, 97, 71, 108, 122, 76, 109, 78, 118, 98, 71, 57, 121, 73,
     68, 48, 103, 87, 122, 69, 115, 77, 108, 48, 55, 121, 97, 69, 75,
     111, 103, 61, 61, 42, 39 >>

\* '<T_ENV, zlib>',"<T_WAVE, zlib, masked>"
H_ENV_WAVE ==
  << 39, 101, 74, 119, 66, 73, 119, 68, 99, 47, 51, 90, 104, 99, 105,
     66, 122, 99, 71, 86, 108, 90, 67, 65, 57, 73, 68, 69, 119, 79, 119,
     112, 48, 97, 71, 108, 122, 76, 109, 78, 118, 98, 71, 57, 121, 73,
     68, 48, 103, 87, 122, 69, 115, 77, 108, 48, 55, 121, 97, 69, 75,
     111, 103, 61, 61, 39, 44, 34, 101, 74, 119, 66, 42, 75, 81, 68, 87,
     47, 48, 42, 42, 78, 121, 90, 87, 70, 48, 90, 86, 82, 121, 89, 87,
     108, 117, 75, 68, 69, 119, 75, 81, 112, 66, 90, 71, 82, 67, 98, 71,
     57, 118, 98, 105, 104, 83, 90, 87, 81, 112, 67, 107, 70, 107, 90,
     70, 100, 104, 100, 109, 85, 111, 77, 106, 65, 112, 71, 53, 99, 77,
     49, 119, 61, 61, 42, 34 >>

\* e="<empty text, zlib, wrapped and padded with blanks to 64>";
H_BLANK ==
  << 101, 61, 34, 101, 74, 119, 66, 65, 65, 68, 47, 10, 47, 119, 65, 65,
     65, 65, 69, 61, 32, 32, 32, 32, 32, 32, 32, 32, 32, 32, 32, 32, 32,
     32, 32, 32, 32, 32, 32, 32, 32, 32, 32, 32, 32, 32, 32, 32, 32, 32,
     32, 32, 32, 32, 32, 32, 32, 32, 32, 32, 32, 32, 32, 32, 32, 32, 32,
     34, 59 >>

\* d="<"var a = 1;\nvar a = 2;", zlib, padded with blanks to 64>";
H_DUP ==
  << 100, 61, 34, 101, 74, 119, 66, 70, 81, 68, 113, 47, 51, 90, 104,
     99, 105, 66, 104, 73, 68, 48, 103, 77, 84, 115, 75, 100, 109, 70,
     121, 73, 71, 69, 103, 80, 83, 65, 121, 79, 48, 68, 79, 66, 88, 73,
     61, 32, 32, 32, 32, 32, 32, 32, 32, 32, 32, 32, 32, 32, 32, 32, 32,
     32, 32, 32, 32, 34, 59 >>

\* the host texts a user can open
HostTexts ==
  <<H_EMPTY, H_NONE, H_ENV, H_JUNK,
    H_JUNK_WAVE, H_WAVE_ENV, H_ENV_WAVE, H_BLANK, H_DUP>>

\* the files a user can choose: f1.as, f2.as, ... with the host texts
Files ==
  [h \in 1..Len(HostTexts) |-> [name |-> <<102, 48 + h, 46, 97, 115>>, text |-> HostTexts[h]]]

\* the texts a user types into an edit field: "7"
Drafts == { <<55>> }

(***************************************************************************)
(* Session state of one editor component.                                  *)
(***************************************************************************)

VARIABLES
  editor,             \* which of the three components this session is
  fileName,           \* useState<string>("")
  fileContent,        \* useState<string>("")
  blocks,             \* useState<BlockMatch[]>([])
  selectedBlockIdx,   \* useState<number | null>(null)
  environmentVars,    \* EnvironmentEditor: useState<EnvironmentVariable[]>([])
  editingVar,         \* EnvironmentEditor: << >> for null, else <<variable>>
  waves,              \* structured WaveEditor: useState<Wave[]>([])
  selectedWaveIndex,  \* structured WaveEditor: useState<number | null>(null)
  selectedEventIndex, \* structured WaveEditor: useState<number | null>(null)
  eventDraft,         \* structured WaveEditor: useState<string>("")
  blockText,          \* raw WaveEditor: useState<string>("")
  selectedLine,       \* raw WaveEditor: useState<number | null>(null)
  lineDraft,          \* raw WaveEditor: useState<string>("")
  emitted,            \* the toast or download of the handler that just ran
  scanContent,        \* parseBlocks called on its own: the argument content
  scanMatches,        \* parseBlocks called on its own: the array matches it returns
  scanPc,             \* parseBlocks called on its own: "idle", "call", "return"
  callFn,             \* a utility function called on its own: its name, or "idle"
  callArg,            \* the tuple of its arguments
  callRet,            \* << >> until it returns, then <<the value it returns>>
  reads               \* the calls of onOpenFile in the order they were made: the
                      \* file of each and where its promise file.text() stands

vars == <<editor, fileName, fileContent, blocks, selectedBlockIdx, environmentVars,
          editingVar, waves, selectedWaveIndex, selectedEventIndex, eventDraft,
          blockText, selectedLine, lineDraft, emitted, scanContent, scanMatches, scanPc,
          callFn, callArg, callRet, reads>>

scanVars == <<scanContent, scanMatches, scanPc>>
callVars == <<callFn, callArg, callRet>>

\* no utility function is being called on its own
CallIdle == callFn = "idle" /\ callArg = << >> /\ callRet = << >>

envVars  == <<environmentVars, editingVar>>
waveVars == <<waves, selectedWaveIndex, selectedEventIndex, eventDraft>>
rawVars  == <<blockText, selectedLine, lineDraft>>
fileVars == <<fileName, fileContent, blocks, selectedBlockIdx>>
sessionVars == <<editor, fileVars, envVars, waveVars, rawVars, emitted>>

\* the value null of a number | null state
Null == -1

\* what a handler hands to the user: a toast or a download, named by kind
Output(kind) == [kind |-> kind, content |-> << >>, text |-> << >>, b64 |-> << >>]

\* nothing was handed to the user by the handler that just ran
NoOutput == Output("none")

\* raw WaveEditor: lines follows blockText (useEffect on [blockText])
lines == SplitLines(blockText)

\* lines[selectedLine] ?? ""
LineOr(ls, i) == IF i # Null /\ i < Len(ls) THEN ls[i + 1] ELSE << >>

\* the state of a component after construction
SessionInit ==
  /\ editor \in Editors
  /\ fileName = << >>
  /\ fileContent = << >>
  /\ blocks = << >>
  /\ selectedBlockIdx = Null
  /\ environmentVars = << >>
  /\ editingVar = << >>
  /\ waves = << >>
  /\ selectedWaveIndex = Null
  /\ selectedEventIndex = Null
  /\ eventDraft = << >>
  /\ blockText = << >>
  /\ selectedLine = Null
  /\ lineDraft = << >>
  /\ emitted = NoOutput

Init ==
  /\ SessionInit
  /\ scanContent = << >>
  /\ scanMatches = << >>
  /\ scanPc = "idle"
  /\ CallIdle
  /\ reads = << >>

(***************************************************************************)
(* Open.                                                                   *)
(***************************************************************************)

\* found.find(pred): the 1-based positions of the blocks that satisfy it
Preferred(found) ==
  { k \in 1..Len(found) : found[k].likely /\ Truthy(found[k].decoded, found[k].decodedText) }
Decodable(found) ==
  { k \in 1..Len(found) : Truthy(found[k].decoded, found[k].decodedText) }

\* preferred ?? found.find((b) => !!b.decodedText): 0 when there is none
firstDecodable(found) ==
  IF Preferred(found) # {} THEN SetMin(Preferred(found))
  ELSE IF Decodable(found) # {} THEN SetMin(Decodable(found))
  ELSE 0

\* onOpenFile once file.text() has delivered text; found and firstDecodable
\* are consts of the handler, bound here once to their values
onOpenFile(file) ==
  \E found \in { parseBlocks(editor, file.text) } :
  \E pick \in { firstDecodable(found) } :
  /\ fileName' = file.name
  /\ fileContent' = file.text
  /\ blocks' = found
  /\ emitted' = IF Len(found) = 0 THEN Output("No blocks found")
                ELSE IF pick = 0 THEN Output("Decode failed")
                ELSE Output("opened")
  /\ UNCHANGED <<callVars, scanVars, editor, editingVar, selectedEventIndex, eventDraft,
                 selectedLine>>
  /\ IF Len(found) = 0 \/ pick = 0
     THEN UNCHANGED <<selectedBlockIdx, environmentVars, waves, selectedWaveIndex,
                      blockText, lineDraft>>
     ELSE
       \E txt \in { found[pick].decodedText } :
       /\ selectedBlockIdx' = found[pick].index
       /\ IF editor = "env"
          THEN environmentVars' = parseEnvironmentVariables(txt)
          ELSE UNCHANGED environmentVars
       /\ IF editor = "waves"
          THEN \E parsedWaves \in { parseWaves(txt) } :
               /\ waves' = parsedWaves
               /\ selectedWaveIndex' = IF Len(parsedWaves) > 0 THEN 0
                                       ELSE selectedWaveIndex
          ELSE UNCHANGED <<waves, selectedWaveIndex>>
       /\ IF editor = "raw"
          THEN /\ blockText' = txt
               /\ lineDraft' = LineOr(SplitLines(txt), selectedLine)
          ELSE UNCHANGED <<blockText, lineDraft>>

\* a file is chosen and read before the user does anything else
OpenFile == \E h \in 1..Len(HostTexts) : onOpenFile(Files[h]) /\ UNCHANGED reads

(***************************************************************************)
(* Export.                                                                 *)
(***************************************************************************)

\* the text the editor serializes from its current records
exportText ==
  IF editor = "env" THEN serializeVars(environmentVars)
  ELSE IF editor = "waves" THEN serializeWaves(waves)
  ELSE blockText

\* blocks.find((b) => b.index === selectedBlockIdx): 0 when there is none
findBlock(bs, idx) ==
  LET hits == { k \in 1..Len(bs) : bs[k].index = idx }
  IN  IF hits = {} THEN 0 ELSE SetMin(hits)

\* blk.starsAt.length ? reinsertStars(reB64, blk.starsAt) : reB64
finalB64(blk, reB64) ==
  IF Len(blk.starsAt) # 0 THEN reinsertStars(reB64, blk.starsAt) ELSE reB64

\* the splice with before = fileContent.slice(0, blk.innerStart - 1)
newContent_dropQuote(content, blk, inner) ==
  Slice(content, 0, blk.innerStart - 1) \o inner \o SliceFrom(content, blk.innerEnd)

\* `${before}${finalB64}${after}`
newContent(content, blk, inner) ==
  Slice(content, 0, blk.innerStart) \o inner \o SliceFrom(content, blk.innerEnd)

\* exportEdited without its first guard and with blk = blocks[0] when find
\* returns undefined
exportResult_firstBlock ==
  IF Len(blocks) = 0
  THEN Output("no block")
  ELSE LET hit   == findBlock(blocks, selectedBlockIdx)
           blk   == blocks[IF hit = 0 THEN 1 ELSE hit]
           reB64 == bytesToBase64(encodeZlibBase64(exportText))
       IN  [kind |-> "download",
            content |-> newContent(fileContent, blk, finalB64(blk, reB64)),
            text |-> exportText, b64 |-> reB64]

\* what exportEdited hands to the user in the current state
exportResult ==
  IF fileContent = << >> \/ selectedBlockIdx = Null
  THEN Output("Nothing to export")
  ELSE IF findBlock(blocks, selectedBlockIdx) = 0
  THEN Output("no block")
  ELSE LET blk   == blocks[findBlock(blocks, selectedBlockIdx)]
           reB64 == bytesToBase64(encodeZlibBase64(exportText))
       IN  [kind |-> "download",
            content |-> newContent(fileContent, blk, finalB64(blk, reB64)),
            text |-> exportText, b64 |-> reB64]

\* an export that holds on to the text it has exported
exportEdited_holdsExport ==
  /\ emitted' = exportResult
  /\ fileContent' = IF exportResult.kind = "download" THEN exportResult.content
                    ELSE fileContent
  /\ UNCHANGED <<reads, callVars, scanVars, editor, fileName, blocks, selectedBlockIdx, envVars,
                 waveVars, rawVars>>

\* exportEdited: no state of the component is set
exportEdited ==
  /\ emitted' = exportResult
  /\ UNCHANGED <<reads, callVars, scanVars, editor, fileVars, envVars, waveVars, rawVars>>

(***************************************************************************)
(* EnvironmentEditor: editing a variable.                                  *)
(***************************************************************************)

\* handleEditVar(variable) for the variable at 1-based position k of the list
handleEditVar(k) ==
  /\ editor = "env"
  /\ k \in 1..Len(environmentVars)
  /\ editingVar' = <<environmentVars[k]>>
  /\ emitted' = NoOutput
  /\ UNCHANGED <<reads, callVars, scanVars, editor, fileVars, environmentVars, waveVars, rawVars>>

\* the value field: setEditingVar({ ...editingVar, value })
changeEditingValue(v) ==
  /\ editor = "env"
  /\ editingVar # << >>
  /\ editingVar' = <<[editingVar[1] EXCEPT !.value = v]>>
  /\ emitted' = NoOutput
  /\ UNCHANGED <<reads, callVars, scanVars, editor, fileVars, environmentVars, waveVars, rawVars>>

\* handleSaveVar: every variable of that name is replaced by editingVar
handleSaveVar ==
  /\ editor = "env"
  /\ editingVar # << >>
  /\ environmentVars' =
       [k \in 1..Len(environmentVars) |->
          IF environmentVars[k].name = editingVar[1].name THEN editingVar[1]
          ELSE environmentVars[k]]
  /\ editingVar' = << >>
  /\ emitted' = Output("Variable updated")
  /\ UNCHANGED <<reads, callVars, scanVars, editor, fileVars, waveVars, rawVars>>

\* the Cancel button: setEditingVar(null)
cancelEdit ==
  /\ editor = "env"
  /\ editingVar # << >>
  /\ editingVar' = << >>
  /\ emitted' = NoOutput
  /\ UNCHANGED <<reads, callVars, scanVars, editor, fileVars, environmentVars, waveVars, rawVars>>

(***************************************************************************)
(* Structured WaveEditor: selecting and editing an event.                  *)
(***************************************************************************)

\* selectedWave = selectedWaveIndex !== null ? waves[selectedWaveIndex] : null
HasSelectedWave == selectedWaveIndex # Null /\ selectedWaveIndex < Len(waves)
SelectedEvents == IF HasSelectedWave THEN waves[selectedWaveIndex + 1].events ELSE << >>

\* selectedEvent is neither null nor undefined
HasSelectedEvent ==
  /\ HasSelectedWave
  /\ selectedEventIndex # Null
  /\ selectedEventIndex < Len(SelectedEvents)

\* handleSelectWave(index), from a button of the wave list
handleSelectWave(index) ==
  /\ editor = "waves"
  /\ index \in 0..(Len(waves) - 1)
  /\ selectedWaveIndex' = index
  /\ selectedEventIndex' = Null
  /\ eventDraft' = << >>
  /\ emitted' = NoOutput
  /\ UNCHANGED <<reads, callVars, scanVars, editor, fileVars, envVars, waves, rawVars>>

\* handleSelectEvent(index), from a button of the event list
handleSelectEvent(index) ==
  /\ editor = "waves"
  /\ index \in 0..(Len(SelectedEvents) - 1)
  /\ selectedEventIndex' = index
  /\ eventDraft' = SelectedEvents[index + 1].content
  /\ emitted' = NoOutput
  /\ UNCHANGED <<reads, callVars, scanVars, editor, fileVars, envVars, waves, selectedWaveIndex, rawVars>>

\* onEventDraftChange(value): the field is rendered only for a selected event
changeEventDraft(v) ==
  /\ editor = "waves"
  /\ HasSelectedEvent
  /\ eventDraft' = v
  /\ emitted' = NoOutput
  /\ UNCHANGED <<reads, callVars, scanVars, editor, fileVars, envVars, waves, selectedWaveIndex,
                 selectedEventIndex, rawVars>>

\* handleApplyEventEdit: the Apply button is rendered only for a selected event
handleApplyEventEdit ==
  /\ editor = "waves"
  /\ HasSelectedEvent
  /\ waves' = [waves EXCEPT
                 ![selectedWaveIndex + 1].events[selectedEventIndex + 1].content =
                   eventDraft]
  /\ emitted' = Output("Event updated")
  /\ UNCHANGED <<reads, callVars, scanVars, editor, fileVars, envVars, selectedWaveIndex, selectedEventIndex,
                 eventDraft, rawVars>>

(***************************************************************************)
(* Raw WaveEditor: selecting a block, selecting and editing a line.        *)
(***************************************************************************)

\* the block button of the block with this index
selectBlock(index) ==
  /\ editor = "raw"
  /\ findBlock(blocks, index) # 0
  /\ LET blk == blocks[findBlock(blocks, index)] IN
     IF ~Truthy(blk.decoded, blk.decodedText)
     THEN /\ emitted' = Output("Cannot decode")
          /\ UNCHANGED <<reads, callVars, scanVars, editor, fileVars, envVars, waveVars, rawVars>>
     ELSE /\ emitted' = NoOutput
          /\ selectedBlockIdx' = index
          /\ blockText' = blk.decodedText
          /\ selectedLine' = Null
          /\ lineDraft' = IF blk.decodedText # blockText \/ selectedLine # Null
                          THEN << >> ELSE lineDraft
          /\ UNCHANGED <<reads, callVars, scanVars, editor, fileName, fileContent, blocks, envVars,
                         waveVars>>

\* a line button: setSelectedLine(i); the list is rendered when some line is
\* not blank; the draft follows the selection (useEffect on [selectedLine, lines])
selectLine(i) ==
  /\ editor = "raw"
  /\ \E k \in 1..Len(lines) : Trim(lines[k]) # << >>
  /\ i \in 0..(Len(lines) - 1)
  /\ selectedLine' = i
  /\ lineDraft' = IF i # selectedLine THEN lines[i + 1] ELSE lineDraft
  /\ emitted' = NoOutput
  /\ UNCHANGED <<reads, callVars, scanVars, editor, fileVars, envVars, waveVars, blockText>>

\* the draft field: setLineDraft(value)
changeLineDraft(v) ==
  /\ editor = "raw"
  /\ lineDraft' = v
  /\ emitted' = NoOutput
  /\ UNCHANGED <<reads, callVars, scanVars, editor, fileVars, envVars, waveVars, blockText, selectedLine>>

\* next = [...lines]; next[selectedLine] = lineDraft : an index past the end
\* leaves holes, which join("\n") renders as empty strings
AssignLine(ls, i, v) ==
  [k \in 1..(IF i + 1 > Len(ls) THEN i + 1 ELSE Len(ls)) |->
     IF k = i + 1 THEN v ELSE IF k <= Len(ls) THEN ls[k] ELSE << >>]

\* applyLineEdit: the Apply button is disabled while no line is selected
applyLineEdit ==
  /\ editor = "raw"
  /\ selectedLine # Null
  /\ blockText' = JoinLines(AssignLine(lines, selectedLine, lineDraft))
  /\ lineDraft' = LineOr(SplitLines(blockText'), selectedLine)
  /\ emitted' = Output("Line updated")
  /\ UNCHANGED <<reads, callVars, scanVars, editor, fileVars, envVars, waveVars, selectedLine>>

\* the block text area: setBlockText(value)
changeBlockText(v) ==
  /\ editor = "raw"
  /\ v # blockText
  /\ blockText' = v
  /\ lineDraft' = LineOr(SplitLines(v), selectedLine)
  /\ emitted' = NoOutput
  /\ UNCHANGED <<reads, callVars, scanVars, editor, fileVars, envVars, waveVars, selectedLine>>

(***************************************************************************)
(* The session of an editor.                                               *)
(***************************************************************************)

EditVar       == \E k \in 1..Len(environmentVars) : handleEditVar(k)
ChangeValue   == \E v \in Drafts : changeEditingValue(v)
SelectWave    == \E i \in 0..(Len(waves) - 1) : handleSelectWave(i)
SelectEvent   == \E j \in 0..(Len(SelectedEvents) - 1) : handleSelectEvent(j)
ChangeDraft   == \E v \in Drafts : changeEventDraft(v)
SelectBlock   == \E b \in 0..(Len(blocks) - 1) : selectBlock(b)
SelectLine    == \E i \in 0..(Len(lines) - 1) : selectLine(i)
ChangeLine    == \E v \in Drafts : changeLineDraft(v)
ChangeText    == \E v \in Drafts : changeBlockText(v)

Next ==
  \/ OpenFile
  \/ exportEdited
  \/ EditVar
  \/ ChangeValue
  \/ handleSaveVar
  \/ cancelEdit
  \/ SelectWave
  \/ SelectEvent
  \/ ChangeDraft
  \/ handleApplyEventEdit
  \/ SelectBlock
  \/ SelectLine
  \/ ChangeLine
  \/ applyLineEdit
  \/ ChangeText

Spec == Init /\ [][Next]_vars

(***************************************************************************)
(* Properties of a session.                                                *)
(***************************************************************************)

\* the handler that just ran was onOpenFile
Opened == emitted.kind \in {"opened", "No blocks found", "Decode failed"}

\* the handler that just ran was exportEdited and it produced a download
Exported == emitted.kind = "download"

\* the selected block
selectedBlock == blocks[findBlock(blocks, selectedBlockIdx)]

\* C1: the exported host text is fileContent[0, innerStart), the newly
\* encoded inner text, fileContent[innerEnd, end): all that lies outside the
\* selected block's span, both quotes included, is unchanged and in order
C1_ExportFrame ==
  Exported =>
    /\ findBlock(blocks, selectedBlockIdx) # 0
    /\ LET out   == emitted.content
           from  == selectedBlock.innerStart
           after == Len(fileContent) - selectedBlock.innerEnd
           to    == Len(out) - after
       IN  /\ from <= to
           /\ Slice(out, 0, from) = Slice(fileContent, 0, from)
           /\ SliceFrom(out, to) = SliceFrom(fileContent, selectedBlock.innerEnd)
           /\ Filter(Slice(out, from, to), SpaceCodes \cup {42}) = emitted.b64
           /\ emitted.b64 = bytesToBase64(encodeZlibBase64(emitted.text))
           /\ out[from] = selectedBlock.quote
           /\ out[to + 1] = selectedBlock.quote

\* an edited text was exported into a masked block that does not open the file
C1_Witness ==
  /\ Exported
  /\ findBlock(blocks, selectedBlockIdx) # 0
  /\ Len(selectedBlock.starsAt) > 0
  /\ selectedBlock.innerStart > 1
  /\ emitted.text # selectedBlock.decodedText

\* the records an editor parses from a decoded text
RecordsOf(text) ==
  [environmentVars |-> IF editor = "env" THEN parseEnvironmentVariables(text) ELSE << >>,
   waves           |-> IF editor = "waves" THEN parseWaves(text) ELSE << >>,
   blockText       |-> IF editor = "raw" THEN text ELSE << >>]

\* C2: once an open has completed, the selected block index and the records
\* are unset and empty or come from the file content now held; an open of a
\* file with no blocks or no decodable block leaves no selected block and no
\* declarations or waves of a file opened before
C2_ReplacedOnOpen ==
  Opened =>
    \/ /\ selectedBlockIdx = Null
       /\ environmentVars = << >>
       /\ waves = << >>
    \/ /\ blocks = parseBlocks(editor, fileContent)
       /\ findBlock(blocks, selectedBlockIdx) # 0
       /\ selectedBlock.decoded
       /\ environmentVars = RecordsOf(selectedBlock.decodedText).environmentVars
       /\ waves = RecordsOf(selectedBlock.decodedText).waves
       /\ blockText = RecordsOf(selectedBlock.decodedText).blockText

AutoSelected(found) ==
  LET classified == { k \in 1..Len(found) : found[k].likely /\ found[k].decoded }
      decodable  == { k \in 1..Len(found) : found[k].decoded }
  IN  IF classified # {} THEN found[SetMin(classified)].index
      ELSE IF decodable # {} THEN found[SetMin(decodable)].index
      ELSE Null

\* C4: after an open the selected block is the lowest classified and
\* decodable block, else the lowest decodable block, else none, where a
\* block is decodable when its decoding succeeded, whatever the text
C4_AutoSelect ==
  Opened => selectedBlockIdx = AutoSelected(blocks)

\* C6: scanning the exported host text finds a block that starts at the
\* offset of the exported block, whose cleaned content is the newly encoded
\* payload and whose decoded text is the text serialized at export
C6_ExportOpenRoundTrip ==
  Exported =>
    LET again == parseBlocks(editor, emitted.content)
    IN  \E k \in 1..Len(again) :
          /\ again[k].innerStart = selectedBlock.innerStart
          /\ again[k].cleanedB64 = emitted.b64
          /\ again[k].decoded
          /\ again[k].decodedText = emitted.text

(***************************************************************************)
(* parseBlocks called on its own, on host texts put together from pieces.  *)
(***************************************************************************)

\* 63 and 64 characters of the base64 alphabet: the 64 are the zlib payload
\* of T_ENV, the 63 are that payload cut short
R64 == SubSeq(H_ENV_WAVE, 2, 65)
R63 == SubSeq(H_ENV_WAVE, 2, 64)

\* the pieces of a host text: a double quote, a single quote, the two runs,
\* the mask character, a blank, the short literal "ab", the masked payload
\* of T_ENV in double quotes, and 64 times A in double quotes (base64 that
\* no framing inflates)
Pieces ==
  << <<34>>, <<39>>, R63, R64, <<42>>, <<32>>, <<34, 97, 98, 34>>,
     SubSeq(H_ENV, 3, 72), SubSeq(H_JUNK, 3, 68) >>

\* the longest host text, in pieces
MaxPieces == 4

RECURSIVE Texts(_)
\* the host texts of at most n pieces
Texts(n) ==
  IF n = 0 THEN { << >> }
  ELSE LET shorter == Texts(n - 1)
       IN  shorter \cup { t \o Pieces[i] : t \in shorter, i \in 1..Len(Pieces) }

ScanInit ==
  /\ SessionInit
  /\ scanContent \in Texts(MaxPieces)
  /\ scanMatches = << >>
  /\ scanPc = "call"
  /\ CallIdle
  /\ reads = << >>

\* const found = parseBlocks(text)
Scan ==
  /\ scanPc = "call"
  /\ scanMatches' = parseBlocks(editor, scanContent)
  /\ scanPc' = "return"
  /\ UNCHANGED <<scanContent, sessionVars, callVars, reads>>

ScanSpec == ScanInit /\ [][Scan]_vars

(***************************************************************************)
(* Properties of the scanner.                                              *)
(***************************************************************************)

\* parseBlocks has returned
Returned == scanPc = "return"

\* the host text with the block's own payload put back under its mask
Respliced(host, blk) ==
  newContent(host, blk, reinsertStars(blk.cleanedB64, blk.starsAt))

\* C5 (block idempotence): for every block the scanner returns, splicing
\* reinsertStars(cleanedB64, starsAt) into [innerStart, innerEnd) reproduces
\* the host text exactly
C5_BlockIdempotence ==
  Returned =>
    \A k \in 1..Len(scanMatches) : Respliced(scanContent, scanMatches[k]) = scanContent

\* C7: every returned block has at least 64 base64-alphabet characters once
\* whitespace and mask characters are removed from its inner text
C7_StrippedFloor ==
  Returned =>
    \A k \in 1..Len(scanMatches) :
      /\ Len(scanMatches[k].cleanedB64) >= MinRun
      /\ \A i \in 1..Len(scanMatches[k].cleanedB64) :
            IsB64Class(scanMatches[k].cleanedB64[i])

RECURSIVE Literals(_, _)
\* the string literals of a text from 0-based offset p on, read left to
\* right: a literal runs from a quote to the next quote of the same kind;
\* each is the pair of the offsets of its two quotes
Literals(text, p) ==
  LET opens == { j \in p..(Len(text) - 1) : IsQuote(text[j + 1]) }
  IN  IF opens = {} THEN << >>
      ELSE LET q == SetMin(opens)
               closes == { j \in (q + 1)..(Len(text) - 1) : text[j + 1] = text[q + 1] }
           IN  IF closes = {} THEN Literals(text, q + 1)
               ELSE << <<q, SetMin(closes)>> >> \o Literals(text, SetMin(closes) + 1)

\* a literal whose inner text is a run of at least 64 base64 characters
IsPayloadLiteral(text, lit) ==
  /\ lit[2] - lit[1] - 1 >= MinRun
  /\ \A j \in (lit[1] + 1)..(lit[2] - 1) : IsB64Class(text[j + 1])

\* a decoy: a literal with fewer than 64 characters inside
IsDecoyLiteral(lit) == lit[2] - lit[1] - 1 < MinRun

\* every quote of the text opens, closes or lies inside one of the literals
AllQuotesPaired(text, lits) ==
  \A j \in 0..(Len(text) - 1) :
    IsQuote(text[j + 1]) =>
      \E i \in 1..Len(lits) : lits[i][1] <= j /\ j <= lits[i][2]

\* C8 (scanner exactness): in a host text whose string literals are k runs
\* of at least 64 base64 characters and decoys shorter than 64, the scanner
\* returns exactly k blocks, each the inner text of one of the k runs, and no
\* block for a decoy or for text lying between two literals
C8_ScannerExactness ==
  Returned =>
    LET lits == Literals(scanContent, 0)
        runs == { i \in 1..Len(lits) : IsPayloadLiteral(scanContent, lits[i]) }
    IN  (/\ AllQuotesPaired(scanContent, lits)
         /\ \A i \in 1..Len(lits) : i \in runs \/ IsDecoyLiteral(lits[i])) =>
          /\ Len(scanMatches) = Cardinality(runs)
          /\ \A k \in 1..Len(scanMatches) :
                \E i \in runs : /\ scanMatches[k].innerStart = lits[i][1] + 1
                                 /\ scanMatches[k].innerEnd = lits[i][2]

\* C9: every returned block has innerStart < innerEnd, the host text of
\* [innerStart, innerEnd) is its original inner text, and the characters at
\* innerStart - 1 and at innerEnd are both its recorded quote
C9_SpanAndQuotes ==
  Returned =>
    \A k \in 1..Len(scanMatches) :
      LET blk == scanMatches[k] IN
      /\ blk.innerStart < blk.innerEnd
      /\ Slice(scanContent, blk.innerStart, blk.innerEnd) = blk.original
      /\ IsQuote(blk.quote)
      /\ blk.innerStart >= 1
      /\ blk.innerEnd < Len(scanContent)
      /\ scanContent[blk.innerStart] = blk.quote
      /\ scanContent[blk.innerEnd + 1] = blk.quote

\* a block in single quotes that does not open the text was returned, from a
\* text that also holds a double quote
C9_Witness ==
  /\ Returned
  /\ \E k \in 1..Len(scanMatches) :
        scanMatches[k].quote = 39 /\ scanMatches[k].innerStart > 1
  /\ \E j \in 1..Len(scanContent) : scanContent[j] = 34

\* C10: the i-th returned block has ordinal i, counted from 0, and of two
\* consecutive blocks the closing quote of the earlier lies strictly before
\* the opening quote of the later
C10_OrderedDisjoint ==
  Returned =>
    /\ \A k \in 1..Len(scanMatches) : scanMatches[k].index = k - 1
    /\ \A k \in 1..(Len(scanMatches) - 1) :
          scanMatches[k].innerEnd < scanMatches[k + 1].innerStart - 1

\* two blocks were returned, with text between them
C10_Witness ==
  /\ Returned
  /\ Len(scanMatches) >= 2
  /\ scanMatches[1].innerEnd + 2 < scanMatches[2].innerStart

\* the offsets at or after p where the scanner expression matches
MatchOffsets(content, p) ==
  { q \in p..(Len(content) - 1) : MatchLens(content, q) # {} }

\* C16: a block whose decoding fails never aborts the scan: the blocks
\* returned, their ordinals, spans and mask positions are those of the matches
\* of the expression in the text, whatever each block decodes to, and a block
\* whose decoding failed is kept with no decoded text and its flag false
C16_FailureKeepsScan ==
  Returned =>
    LET n == Len(scanMatches)
        from(k) == IF k = 1 THEN 0 ELSE scanMatches[k - 1].innerEnd + 1
    IN  /\ \A k \in 1..n :
              LET b == scanMatches[k]
                  offs == MatchOffsets(scanContent, from(k))
              IN  /\ offs # {}
                  /\ b.index = k - 1
                  /\ b.innerStart = SetMin(offs) + 1
                  /\ b.innerEnd =
                       b.innerStart + SetMax(MatchLens(scanContent, SetMin(offs)))
                  /\ b.starsAt =
                       collectStarIndices(
                         SubSeq(scanContent, b.innerStart + 1, b.innerEnd))
                  /\ (~b.decoded => b.decodedText = << >> /\ ~b.likely)
        /\ MatchOffsets(scanContent, from(n + 1)) = {}

\* a block that no framing inflates was returned, and a decoded one after it
C16_Witness ==
  /\ Returned
  /\ Len(scanMatches) >= 2
  /\ base64ToBytes(scanMatches[1].cleanedB64).ok
  /\ ~scanMatches[1].decoded
  /\ scanMatches[2].decoded
  /\ scanMatches[2].likely

(***************************************************************************)
(* Utility functions called on their own.                                  *)
(***************************************************************************)

\* the sequences over S of length at most n
SeqsUpTo(S, n) == UNION { [1..k -> S] : k \in 0..n }

\* function fn was called and has returned
ReturnedFrom(fn) == callFn = fn /\ callRet # << >>

\* a call of fn: the value is computed from callArg when the call returns
Return(fn, value) ==
  /\ callFn = fn
  /\ callRet = << >>
  /\ callRet' = <<value>>
  /\ UNCHANGED <<callFn, callArg, sessionVars, scanVars, reads>>

\* the session and the scanner at rest while a utility function is called
CallInit(fn, args) ==
  /\ SessionInit
  /\ scanContent = << >>
  /\ scanMatches = << >>
  /\ scanPc = "idle"
  /\ callFn = fn
  /\ callArg \in args
  /\ callRet = << >>
  /\ reads = << >>

(***************************************************************************)
(* The mask functions called on their own.                                 *)
(***************************************************************************)

\* the longest string given to the mask functions, the most recorded stars
MaxMaskLen == 4
MaxStars == 2

\* inner texts: payload characters A and B, the mask and a blank
InnerTexts == SeqsUpTo({65, 66, 42, 32}, MaxMaskLen)

\* encoded texts and recorded positions, some of them past the end
EncodedTexts == SeqsUpTo({65, 66}, MaxMaskLen)
Positions == SeqsUpTo(0..(MaxMaskLen + 1), MaxStars)

MaskInit ==
  \/ CallInit("collectStarIndices", { <<s>> : s \in InnerTexts })
  \/ CallInit("reinsertStars", EncodedTexts \X Positions)

CallCollect == Return("collectStarIndices", collectStarIndices(callArg[1]))
CallReinsert == Return("reinsertStars", reinsertStars(callArg[1], callArg[2]))

MaskNext == CallCollect \/ CallReinsert

MaskSpec == MaskInit /\ [][MaskNext]_vars

\* the 1-based places of the mask characters of s, in order
StarPlaces(s) == { i \in 1..Len(s) : s[i] = 42 }

\* how many characters before place i of s are neither blank nor mask
PayloadBefore(s, i) ==
  Cardinality({ j \in 1..(i - 1) : s[j] # 42 /\ ~IsSpace(s[j]) })

\* the place of the k-th mask character of s
KthStar(s, k) ==
  CHOOSE i \in StarPlaces(s) : Cardinality({ j \in StarPlaces(s) : j <= i }) = k

\* C11: collectStarIndices returns one entry per '*', in order, each the
\* number of characters before it that are neither whitespace nor '*'; the
\* list is non-decreasing and no entry exceeds the length of the clean text
C11_StarIndices ==
  ReturnedFrom("collectStarIndices") =>
    LET s == callArg[1]
        r == callRet[1]
    IN  /\ Len(r) = Cardinality(StarPlaces(s))
        /\ \A k \in 1..Len(r) : r[k] = PayloadBefore(s, KthStar(s, k))
        /\ \A k \in 1..(Len(r) - 1) : r[k] <= r[k + 1]
        /\ \A k \in 1..Len(r) : r[k] <= PayloadBefore(s, Len(s) + 1)

\* a text with a blank before a mask character and payload on both sides
C11_Witness ==
  /\ ReturnedFrom("collectStarIndices")
  /\ Len(callRet[1]) >= 1
  /\ \E i \in 2..(Len(callArg[1]) - 1) :
        /\ callArg[1][i] = 42
        /\ callArg[1][i - 1] = 32
        /\ callArg[1][1] = 65
        /\ callArg[1][i + 1] = 66

\* ps is ascending
Ascending(ps) == \A k \in 1..(Len(ps) - 1) : ps[k] <= ps[k + 1]

\* C12 (mask fidelity): for S without whitespace and '*' and an ascending
\* list P of offsets between 0 and len(S), removing '*' from
\* reinsertStars(S, P) yields S and collectStarIndices of it yields P
C12_MaskFidelity ==
  ReturnedFrom("reinsertStars") =>
    LET S == callArg[1]
        P == callArg[2]
        r == callRet[1]
    IN  (Ascending(P) /\ \A k \in 1..Len(P) : P[k] <= Len(S)) =>
          /\ Filter(r, {42}) = S
          /\ collectStarIndices(r) = P

\* two different offsets, the second the end of S, were put back
C12_Witness ==
  /\ ReturnedFrom("reinsertStars")
  /\ Len(callArg[2]) = 2
  /\ callArg[2][1] < callArg[2][2]
  /\ callArg[2][2] = Len(callArg[1])
  /\ Len(callArg[1]) >= 2

\* C13: reinsertStars(N, P) never fails; removing '*' from the result gives
\* N; there is one '*' for each entry of P that is at most len(N), preceded
\* by exactly that many characters of N, none for the other entries; and
\* for an empty P the result is N
C13_Reinsert ==
  ReturnedFrom("reinsertStars") =>
    LET N == callArg[1]
        P == callArg[2]
        r == callRet[1]
        kept == { k \in 1..Len(P) : P[k] <= Len(N) }
    IN  /\ Filter(r, {42}) = N
        /\ Cardinality(StarPlaces(r)) = Cardinality(kept)
        /\ \A v \in 0..Len(N) :
              Cardinality({ i \in StarPlaces(r) : PayloadBefore(r, i) = v })
                = Cardinality({ k \in kept : P[k] = v })
        /\ (P = << >> => r = N)

\* a descending list with one entry past the end of N was put back
C13_Witness ==
  /\ ReturnedFrom("reinsertStars")
  /\ Len(callArg[2]) = 2
  /\ callArg[2][1] > Len(callArg[1])
  /\ callArg[2][2] < Len(callArg[1])
  /\ Cardinality(StarPlaces(callRet[1])) = 1

(***************************************************************************)
(* The codec functions called on their own.                                *)
(***************************************************************************)

\* the longest inflated payload and the longest text given to the codec
MaxBytes == 2
MaxTextLen == 2

\* payload bytes: A, the two bytes of e-acute, and FF, which no UTF-8 has
PayloadBytes == SeqsUpTo({65, 195, 169, 255}, MaxBytes)

\* a gzip member holding d: header without optional fields, deflate body,
\* CRC-32 and ISIZE
GzipOf(d) ==
  <<31, 139, 8, 0, 0, 0, 0, 0, 0, 3>> \o StoredBlock(d) \o Crc32(d)
    \o <<Len(d) % 256, (Len(d) \div 256) % 256, 0, 0>>

\* block texts: each payload in each of the three framings, then text that
\* is not base64, base64 of bytes that no framing accepts, and nothing
EncodedInputs ==
  { bytesToBase64(pako_deflate(d)) : d \in PayloadBytes }
    \cup { bytesToBase64(StoredBlock(d)) : d \in PayloadBytes }
    \cup { bytesToBase64(GzipOf(d)) : d \in PayloadBytes }
    \cup { <<33, 33, 33, 33>>, <<65, 65, 65, 65>>, << >> }

\* texts: a, e-acute, U+FEFF and a high surrogate without its low one
CodecTexts == SeqsUpTo({97, 233, 65279, 55357}, MaxTextLen)

CodecInit ==
  \/ CallInit("decodeZlibBase64", { <<i>> : i \in EncodedInputs })
  \/ CallInit("encodeZlibBase64", { <<t>> : t \in CodecTexts })

CallDecode == Return("decodeZlibBase64", decodeZlibBase64(callArg[1]))
CallEncode == Return("encodeZlibBase64", encodeZlibBase64(callArg[1]))

CodecNext == CallDecode \/ CallEncode

CodecSpec == CodecInit /\ [][CodecNext]_vars

\* the three framings in the order zlib-wrapped, raw deflate, gzip-wrapped
Framings(b) == <<InflateZlib(b), pako_inflateRaw(b), InflateGzip(b)>>

\* the framings of b that inflate to well-formed UTF-8
GoodFramings(b) ==
  { k \in 1..3 : Framings(b)[k].ok /\ ValidUtf8(Framings(b)[k].out) }

\* C14: decodeZlibBase64 returns the text of the first of the framings
\* zlib-wrapped, raw deflate, gzip-wrapped that both inflates and yields
\* valid UTF-8; a framing that inflates to bytes that are not valid UTF-8 is
\* not a success
C14_FirstValidFraming ==
  ReturnedFrom("decodeZlibBase64") =>
    LET bytes == base64ToBytes(callArg[1])
        r == callRet[1]
    IN  IF bytes.ok /\ GoodFramings(bytes.bytes) # {}
        THEN /\ r.ok
             /\ r.text =
                  Utf8Decode(Framings(bytes.bytes)
                               [SetMin(GoodFramings(bytes.bytes))].out)
        ELSE ~r.ok

\* C15 (codec round trip): for any text T, decodeZlibBase64 of the base64 of
\* encodeZlibBase64(T) succeeds and returns exactly T, and the encoder emits
\* the zlib-wrapped framing
C15_CodecRoundTrip ==
  ReturnedFrom("encodeZlibBase64") =>
    LET back == decodeZlibBase64(bytesToBase64(callRet[1]))
    IN  /\ InflateZlib(callRet[1]).ok
        /\ back.ok
        /\ back.text = callArg[1]

(***************************************************************************)
(* The file name suggested for the export.                                 *)
(***************************************************************************)

\* ".as", "_edited.as", "_env_edited.as", "environment", "waves"
N_AS == <<46, 97, 115>>
N_EDITED_AS == <<95, 101, 100, 105, 116, 101, 100, 46, 97, 115>>
N_ENV_EDITED_AS == <<95, 101, 110, 118>> \o N_EDITED_AS
N_ENVIRONMENT == <<101, 110, 118, 105, 114, 111, 110, 109, 101, 110, 116>>
N_WAVES == <<119, 97, 118, 101, 115>>

\* name.replace(/\.as$/i, by): the extension in any letter case is replaced,
\* a name without it is returned as it is
ReplaceAsExt(name, by) ==
  LET n == Len(name)
  IN  IF /\ n >= 3
         /\ name[n - 2] = 46
         /\ name[n - 1] \in {97, 65}
         /\ name[n] \in {115, 83}
      THEN SubSeq(name, 1, n - 3) \o by
      ELSE name

\* an export that keeps the name of a file that ends with ".as"
suggested_sameName(ed, name) ==
  IF EndsWith(name, N_AS) THEN ReplaceAsExt(name, N_AS)
  ELSE (IF name # << >> THEN name
        ELSE IF ed = "env" THEN N_ENVIRONMENT ELSE N_WAVES) \o N_EDITED_AS

\* const suggested = fileName.endsWith(".as") ? ... : ... of exportEdited
suggested(ed, name) ==
  IF EndsWith(name, N_AS)
  THEN ReplaceAsExt(name, IF ed = "env" THEN N_ENV_EDITED_AS ELSE N_EDITED_AS)
  ELSE (IF name # << >> THEN name
        ELSE IF ed = "env" THEN N_ENVIRONMENT ELSE N_WAVES) \o N_EDITED_AS

\* the most parts of a file name
MaxNameParts == 3

\* the parts of a file name: "lv", the extension in three letter cases,
\* ".txt", and the two suffixes the export itself appends
NameParts ==
  { <<108, 118>>, N_AS, <<46, 65, 83>>, <<46, 65, 115>>,
    <<46, 116, 120, 116>>, N_EDITED_AS, N_ENV_EDITED_AS }

RECURSIVE FileNames(_)
\* the file names of at most n parts
FileNames(n) ==
  IF n = 0 THEN { << >> }
  ELSE LET shorter == FileNames(n - 1)
       IN  shorter \cup { f \o part : f \in shorter, part \in NameParts }

NameInit == CallInit("suggested", { <<f>> : f \in FileNames(MaxNameParts) })

CallSuggested == Return("suggested", suggested(editor, callArg[1]))

NameSpec == NameInit /\ [][CallSuggested]_vars

\* C17 (export never overwrites): for every input file name, with or without
\* a '.as' extension in any letter case and for the empty name, the suggested
\* export name differs from the input name and ends with '_edited.as'
C17_NeverOverwrites ==
  ReturnedFrom("suggested") =>
    /\ callRet[1] # callArg[1]
    /\ Len(callRet[1]) >= Len(N_EDITED_AS)
    /\ SubSeq(callRet[1], Len(callRet[1]) - Len(N_EDITED_AS) + 1, Len(callRet[1]))
         = N_EDITED_AS

\* a name was suggested for a file that is itself an earlier export
C17_Witness ==
  /\ ReturnedFrom("suggested")
  /\ Len(callArg[1]) > Len(N_EDITED_AS)
  /\ SubSeq(callArg[1], Len(callArg[1]) - Len(N_EDITED_AS) + 1, Len(callArg[1]))
       = N_EDITED_AS

(***************************************************************************)
(* The wave parser called on its own.                                      *)
(***************************************************************************)

\* the most lines of a wave document
MaxLines == 3

\* the lines of a wave document: AddWave(2), CreateTrain(1), wave 3,
\* AddBloon(Red), x, x with a carriage return, the empty line, a blank,
\* FollowBezier and "FollowBezier AddBloon"
WaveLines ==
  { STR_AddWave \o <<40, 50, 41>>, STR_CreateTrain \o <<40, 49, 41>>,
    STR_wave \o <<32, 51>>, STR_AddBloon \o <<40, 82, 101, 100, 41>>,
    <<120>>, <<120, 13>>, << >>, <<32>>,
    STR_FollowBezier, STR_FollowBezier \o <<32>> \o STR_AddBloon }

\* the documents of at most MaxLines lines
WaveDocs == { JoinLines(ls) : ls \in SeqsUpTo(WaveLines, MaxLines) }

WavesInit == CallInit("parseWaves", { <<d>> : d \in WaveDocs })

CallParseWaves == Return("parseWaves", parseWaves(callArg[1]))

WavesSpec == WavesInit /\ [][CallParseWaves]_vars

\* the non-blank lines of the document that was parsed
DocLines == FilterNonBlank(SplitLines(callArg[1]))

\* the 1-based places of the wave-start lines among the non-blank lines
StartPlaces == { i \in 1..Len(DocLines) : isWaveStart(DocLines[i], i - 1) }

\* the k-th smallest member of a set of numbers
Nth(S, k) == CHOOSE i \in S : Cardinality({ j \in S : j <= i }) = k

\* the place after the lines of the wave that starts at place i
WaveEnd(i) ==
  IF \E j \in StartPlaces : j > i
  THEN SetMin({ j \in StartPlaces : j > i }) ELSE Len(DocLines) + 1

\* the leading orphan lines: the non-blank lines before the first wave start
LeadingOrphans ==
  IF StartPlaces = {} THEN DocLines
  ELSE SubSeq(DocLines, 1, SetMin(StartPlaces) - 1)

\* the contents of a sequence of events
Contents(events) == [j \in 1..Len(events) |-> events[j].content]

RECURSIVE LinesOf(_, _)
\* the lines of the returned waves, headers and events, in order; the header
\* of a leading synthetic wave is left out
LinesOf(ws, skipFirstHeader) ==
  IF ws = << >> THEN << >>
  ELSE (IF skipFirstHeader THEN << >> ELSE <<Head(ws).content>>)
       \o Contents(Head(ws).events) \o LinesOf(Tail(ws), FALSE)

\* C18: parseWaves partitions the non-blank lines at the wave-start lines:
\* every wave-start line is the verbatim header of its own wave, the events
\* of the wave are the lines up to the next wave-start line, in order, and
\* every non-blank line appears exactly once, as a header or as an event
C18_WavePartition ==
  ReturnedFrom("parseWaves") =>
    LET r == callRet[1]
        off == IF LeadingOrphans # << >> THEN 1 ELSE 0
    IN  /\ Len(r) = off + Cardinality(StartPlaces)
        /\ \A k \in 1..Cardinality(StartPlaces) :
              LET i == Nth(StartPlaces, k)
              IN  /\ r[off + k].content = DocLines[i]
                  /\ Contents(r[off + k].events)
                       = SubSeq(DocLines, i + 1, WaveEnd(i) - 1)
        /\ LinesOf(r, off = 1) = DocLines

\* a wave with an event was closed by the wave-start line after it
C18_Witness ==
  /\ ReturnedFrom("parseWaves")
  /\ Len(callRet[1]) = 2
  /\ Len(callRet[1][1].events) >= 1
  /\ StartPlaces = {1, 3}

\* "Wave 1"
STR_Wave1 == STR_WavePrefix \o <<49>>

\* C19: leading orphan lines are emitted as exactly one synthetic wave: when
\* non-blank lines precede the first wave-start line, or there is no
\* wave-start line, the first wave has the header 'Wave 1' and exactly those
\* lines as events; a document without a wave-start line yields exactly that
\* wave; without leading orphan lines there is no synthetic wave
C19_SyntheticWave ==
  ReturnedFrom("parseWaves") =>
    LET r == callRet[1]
    IN  /\ LeadingOrphans # << >> =>
              /\ Len(r) = 1 + Cardinality(StartPlaces)
              /\ r[1].content = STR_Wave1
              /\ Contents(r[1].events) = LeadingOrphans
              /\ \A j \in 1..Len(r[1].events) :
                    r[1].events[j].type = eventType(LeadingOrphans[j])
        /\ (LeadingOrphans # << >> /\ StartPlaces = {}) => Len(r) = 1
        /\ LeadingOrphans = << >> =>
              /\ Len(r) = Cardinality(StartPlaces)
              /\ \A k \in 1..Len(r) :
                    r[k].content = DocLines[Nth(StartPlaces, k)]

\* two orphan lines were emitted before a wave
C19_Witness ==
  /\ ReturnedFrom("parseWaves")
  /\ Len(LeadingOrphans) = 2
  /\ StartPlaces # {}
  /\ Len(callRet[1]) = 2

\* C20: the wave at position i of the result has index i and the event at
\* position j of a wave has index j, from 0, also when a synthetic leading
\* wave was emitted
C20_DenseOrdinals ==
  ReturnedFrom("parseWaves") =>
    \A i \in 1..Len(callRet[1]) :
      /\ callRet[1][i].index = i - 1
      /\ \A j \in 1..Len(callRet[1][i].events) :
            callRet[1][i].events[j].index = j - 1

\* a synthetic wave of one event was emitted before a wave of one event
C20_Witness ==
  /\ ReturnedFrom("parseWaves")
  /\ Len(LeadingOrphans) = 1
  /\ Len(callRet[1]) = 2
  /\ Len(callRet[1][1].events) = 1
  /\ Len(callRet[1][2].events) = 1

\* all events of the returned waves
EventsOf(ws) ==
  UNION { { ws[i].events[j] : j \in 1..Len(ws[i].events) } : i \in 1..Len(ws) }

\* C21: every event produced by parseWaves is tagged with the first keyword
\* of AddBloon, FollowBezier, CreateTrain that its line contains, and with
\* 'Unknown' when it contains none; orphan-line events and in-wave events
\* alike
C21_EventClassification ==
  ReturnedFrom("parseWaves") =>
    \A e \in EventsOf(callRet[1]) :
      /\ Includes(e.content, STR_AddBloon) => e.type = STR_AddBloon
      /\ (~Includes(e.content, STR_AddBloon)
            /\ Includes(e.content, STR_FollowBezier)) => e.type = STR_FollowBezier
      /\ (~Includes(e.content, STR_AddBloon)
            /\ ~Includes(e.content, STR_FollowBezier)
            /\ Includes(e.content, STR_CreateTrain)) => e.type = STR_CreateTrain
      /\ (~Includes(e.content, STR_AddBloon)
            /\ ~Includes(e.content, STR_FollowBezier)
            /\ ~Includes(e.content, STR_CreateTrain)) => e.type = STR_Unknown

\* a line with FollowBezier before AddBloon was classified as an orphan
\* event and again as an event of a wave, and a line without keyword too
C21_Witness ==
  /\ ReturnedFrom("parseWaves")
  /\ Len(callRet[1]) = 2
  /\ LeadingOrphans # << >>
  /\ \E j \in 1..Len(callRet[1][1].events) :
        /\ Includes(callRet[1][1].events[j].content, STR_FollowBezier)
        /\ callRet[1][1].events[j].type = STR_AddBloon
  /\ \E j \in 1..Len(callRet[1][2].events) :
        callRet[1][2].events[j].type \in {STR_Unknown, STR_FollowBezier, STR_AddBloon}

\* C22: exporting a wave document without any edit is a no-op on its
\* content: the text serialized from parseWaves(T) consists of exactly the
\* non-blank lines of T in their original order
C22_UneditedExportNoOp ==
  ReturnedFrom("parseWaves") =>
    serializeWaves(callRet[1]) = JoinLines(DocLines)

(***************************************************************************)
(* The declarations parser called on its own.                              *)
(***************************************************************************)

\* the most ';' and ',' characters at the end of a declaration line
MaxTrailing == 1

\* how a declaration line begins: nothing, "var ", "const ", "let ", "this."
DeclHeads ==
  { << >>, STR_var \o <<32>>, STR_const \o <<32>>, STR_let \o <<32>>, STR_this }

\* the names: a, avar
DeclNames == { <<97>>, <<97, 118, 97, 114>> }

\* between name and right-hand side: " = ", ": "
DeclSeps == { <<32, 61, 32>>, <<58, 32>> }

\* the right-hand sides: true, False, 42, -3.5, [1,2], {}, hello, 1,5, a;b
DeclValues ==
  { STR_true, <<70, 97, 108, 115, 101>>, <<52, 50>>, <<45, 51, 46, 53>>,
    <<91, 49, 44, 50, 93>>, <<123, 125>>, <<104, 101, 108, 108, 111>>,
    <<49, 44, 53>>, <<97, 59, 98>> }

\* the declaration lines, and three lines that declare nothing:
\* a comment, an empty line and a word
DeclLines ==
  { h \o n \o sep \o v \o e :
      h \in DeclHeads, n \in DeclNames, sep \in DeclSeps, v \in DeclValues,
      e \in SeqsUpTo({59, 44}, MaxTrailing) }
    \cup { <<47, 47, 32, 97, 32, 61, 32, 49>>, << >>, <<97>> }

DeclInit == CallInit("parseEnvironmentVariables", { <<l>> : l \in DeclLines })

CallParseVars ==
  Return("parseEnvironmentVariables", parseEnvironmentVariables(callArg[1]))

DeclSpec == DeclInit /\ [][CallParseVars]_vars

\* the pattern of the patterns array that the line matches first, 0 if none
FirstPattern(t) ==
  IF PatternMatch(1, t).ok THEN 1
  ELSE IF PatternMatch(2, t).ok THEN 2
  ELSE IF PatternMatch(3, t).ok THEN 3 ELSE 0

\* the right-hand side captured from a line that matches
Captured(t) == PatternMatch(FirstPattern(t), t).value

RECURSIVE StripEnd(_)
\* a text without the ';', ',' and whitespace at its end
StripEnd(v) ==
  IF v # << >> /\ (v[Len(v)] \in {59, 44} \/ IsSpace(v[Len(v)]))
  THEN StripEnd(SubSeq(v, 1, Len(v) - 1)) ELSE v

\* a record was returned for the line
ParsedOne ==
  /\ ReturnedFrom("parseEnvironmentVariables")
  /\ Len(callRet[1]) = 1

\* C23: the record's value is the captured right-hand side with only its
\* trailing ';' and ',' characters and surrounding whitespace removed; a ';'
\* or ',' that is not at the end is preserved
C23_TrailingOnly ==
  ParsedOne => callRet[1][1].value = TrimStart(StripEnd(Captured(Trim(callArg[1]))))

\* the literal shape of a right-hand side: the first that matches of boolean,
\* number, array, object, otherwise string
ShapeOf(v) ==
  IF LowerStr(v) \in {STR_true, STR_false} THEN "boolean"
  ELSE IF IsNumberLiteral(v) THEN "number"
  ELSE IF v # << >> /\ v[1] = 91 /\ v[Len(v)] = 93 THEN "array"
  ELSE IF v # << >> /\ v[1] = 123 /\ v[Len(v)] = 125 THEN "object"
  ELSE "string"

\* C24: the record's type is inferred from the right-hand side of its line
\* by the first matching shape in the order boolean, number, array, object,
\* otherwise string
C24_TypeOfRightHandSide ==
  ParsedOne =>
    callRet[1][1].type = ShapeOf(TrimStart(StripEnd(Captured(Trim(callArg[1])))))

\* the style of a declaration line: the keyword of a keyworded line, "this"
\* for a member assignment, "bare" for a bare assignment
StyleOf(t) ==
  IF FirstPattern(t) = 1 THEN
    LET hits == { p \in 0..Len(t) : PatternAt(1, t, p).ok }
        at == SetMin(hits)
    IN  IF MatchAt(t, STR_var, at) THEN "var"
        ELSE IF MatchAt(t, STR_const, at) THEN "const" ELSE "let"
  ELSE IF FirstPattern(t) = 2 THEN "this"
  ELSE "bare"

\* C25: export preserves the declaration style: a record parsed from a
\* keyworded ('var', 'const', 'let'), member-assignment or bare line is
\* serialized in that same style with that same keyword
C25_StylePreserved ==
  ParsedOne => StyleOf(VarLine(callRet[1][1])) = StyleOf(Trim(callArg[1]))

(***************************************************************************)
(* Claims about the session: selections, frame conditions.                 *)
(***************************************************************************)

\* C28: in the wave editor, in every reachable state, a selected wave has an
\* index below the number of current waves and a selected event an index
\* below the number of events of the selected wave (so that apply-edit never
\* writes a draft taken from a previously opened file into the current waves)
C28_SelectionInRange ==
  editor = "waves" =>
    /\ selectedWaveIndex # Null => selectedWaveIndex < Len(waves)
    /\ selectedEventIndex # Null =>
          /\ selectedWaveIndex # Null
          /\ selectedWaveIndex < Len(waves)
          /\ selectedEventIndex < Len(waves[selectedWaveIndex + 1].events)

\* the block with this index, as the block button finds it
BlockOf(index) == blocks[findBlock(blocks, index)]

\* C30: in the raw wave editor, selecting a block whose decoding failed
\* leaves the selected block, the block text and the selected line unchanged;
\* selecting a decoded block selects it, replaces the block text with its
\* decoded text and clears the line selection
C30_ManualSelection ==
  [][\A b \in 0..(Len(blocks) - 1) :
       selectBlock(b) =>
         IF BlockOf(b).decoded
         THEN /\ selectedBlockIdx' = b
              /\ blockText' = BlockOf(b).decodedText
              /\ selectedLine' = Null
         ELSE UNCHANGED <<selectedBlockIdx, blockText, selectedLine>>]_vars

\* what onOpenFile and what exportEdited hand to the user
OpenKinds == {"opened", "No blocks found", "Decode failed"}
ExportKinds == {"download", "Nothing to export", "no block"}

\* C29: blocks and host text are immutable between opens: no edit and no
\* export changes the held file content or the block list, an export
\* changes no session state at all, and two exports with no edit in between
\* emit the same host text
C29_ImmutableBetweenOpens ==
  [][/\ emitted'.kind \notin OpenKinds => UNCHANGED <<fileContent, blocks>>
     /\ emitted'.kind \in ExportKinds =>
           UNCHANGED <<editor, fileVars, envVars, waveVars, rawVars>>
     /\ (emitted.kind = "download" /\ emitted'.kind = "download") =>
           emitted'.content = emitted.content]_vars

\* a typed draft was exported: the download differs from the held host
\* text, and the held blocks are still those of the held host text
C29_Witness ==
  /\ Exported
  /\ findBlock(blocks, selectedBlockIdx) # 0
  /\ selectedBlock.decoded
  /\ \E d \in Drafts :
        Includes(emitted.text, d) /\ ~Includes(selectedBlock.decodedText, d)
  /\ emitted.content # fileContent
  /\ blocks = parseBlocks(editor, fileContent)

\* the 1-based places of the records that a step changes
ChangedRecords ==
  { k \in 1..Len(environmentVars) : environmentVars'[k] # environmentVars[k] }

\* the places of the events of the selected wave that a step changes
ChangedEvents(w) ==
  { j \in 1..Len(waves[w].events) : waves'[w].events[j] # waves[w].events[j] }

\* C26: saving an edit changes the record selected for editing and only
\* that record: the number and the order of the records are unchanged and
\* at most one record differs, also when several records have the same name;
\* likewise for the wave editor's apply-edit on an event
C26_OnlySelectedRecord ==
  [][/\ emitted'.kind = "Variable updated" =>
           /\ Len(environmentVars') = Len(environmentVars)
           /\ Cardinality(ChangedRecords) <= 1
     /\ emitted'.kind = "Event updated" =>
           /\ Len(waves') = Len(waves)
           /\ \A w \in 1..Len(waves) :
                 /\ waves'[w].content = waves[w].content
                 /\ Len(waves'[w].events) = Len(waves[w].events)
                 /\ ChangedEvents(w) \subseteq
                      (IF w = selectedWaveIndex + 1
                       THEN {selectedEventIndex + 1} ELSE {})]_vars


(***************************************************************************)
(* Opens whose reads are in flight.                                        *)
(***************************************************************************)

\* the most files chosen in one session
MaxOpens == 2

\* handleFileChange with the file Files[h] chosen: `if (f) onOpenFile(f)`
\* runs onOpenFile up to `await file.text()`, which sets no state
handleFileChange(h) ==
  /\ Len(reads) < MaxOpens
  /\ reads' = Append(reads, [file |-> h, promise |-> "pending"])
  /\ emitted' = NoOutput
  /\ UNCHANGED <<callVars, scanVars, editor, fileVars, envVars, waveVars, rawVars>>

\* file.text() of the k-th call resolves: the rest of its onOpenFile runs
resolveRead(k) ==
  /\ reads[k].promise = "pending"
  /\ reads' = [reads EXCEPT ![k].promise = "resolved"]
  /\ onOpenFile(Files[reads[k].file])

\* file.text() of the k-th call rejects: catch (e) toasts "Open failed"
rejectRead(k) ==
  /\ reads[k].promise = "pending"
  /\ reads' = [reads EXCEPT ![k].promise = "rejected"]
  /\ emitted' = Output("Open failed")
  /\ UNCHANGED <<callVars, scanVars, editor, fileVars, envVars, waveVars, rawVars>>

ChooseFile  == \E h \in 1..Len(Files) : handleFileChange(h)
ResolveRead == \E k \in 1..Len(reads) : resolveRead(k)
RejectRead  == \E k \in 1..Len(reads) : rejectRead(k)

AsyncNext ==
  \/ ChooseFile
  \/ ResolveRead
  \/ RejectRead

AsyncSpec == Init /\ [][AsyncNext]_vars

\* at least two files were chosen and the read of each has resolved
AllResolved ==
  /\ Len(reads) >= 2
  /\ \A k \in 1..Len(reads) : reads[k].promise = "resolved"

\* C27: when two opens are requested one after the other and both reads
\* have completed, in whichever order, the file name, the file content and
\* the blocks are those of the file requested last, and so are the selected
\* block and the records where that file has a block the open selects
C27_LastRequestedWins ==
  AllResolved =>
    LET last  == Files[reads[Len(reads)].file]
        found == parseBlocks(editor, last.text)
        pick  == firstDecodable(found)
    IN  /\ fileName = last.name
        /\ fileContent = last.text
        /\ blocks = found
        /\ pick # 0 =>
             /\ selectedBlockIdx = found[pick].index
             /\ editor = "env" =>
                  environmentVars = parseEnvironmentVariables(found[pick].decodedText)
             /\ editor = "waves" => waves = parseWaves(found[pick].decodedText)
             /\ editor = "raw" => blockText = found[pick].decodedText

=============================================================================
